---- MODULE Spec2Model ----
(***************************************************************************)
(* The IDP agent chain of agents_adk: the orchestrator's run over the      *)
(* seven sub-agents and the tool functions the agents call, which hand     *)
(* their results to each other through files of an output directory.       *)
(*                                                                         *)
(* Python strings that the code parses or searches are tuples of           *)
(* one-character strings, so that split, strip, lower and the `in` test    *)
(* are computed character by character.  Strings the code only passes on   *)
(* (statuses, file names, dictionary keys) are TLA+ strings.  Accented     *)
(* letters and emoji of the source's literals are left out.                *)
(***************************************************************************)
EXTENDS Integers, Sequences, FiniteSets, TLC

VARIABLES
    env,          \* ADK_OUTPUT_DIR in the process environment (Unset or a path)
    fs,           \* fs[dir][file]: the content of each file of each directory
    clock,        \* datetime.utcnow(), one tick per tool call
    call,         \* the last tool call: [tool, ...arguments]
    ret,          \* the dictionary the last tool call returned
    ncalls,       \* tool calls made so far
    pc,           \* run_orchestrator: "idle", "running", "done"
    task,         \* run_orchestrator's task argument
    demo_mode,    \* run_orchestrator's demo_mode argument
    stage,        \* SequentialAgent: index of the current sub-agent, 0 before the run
    stage_state,  \* "idle", "running" (the sub-agent is producing events), "finished"
    started,      \* the sub-agents started so far, in order
    finished,     \* the sub-agents that yielded their final response, in order
    yielded,      \* events runner.run has yielded
    consumed,     \* events the for-loop of run_orchestrator has processed
    errors_seen,  \* events with is_error() the loop has processed
    stdout,       \* what run_orchestrator printed
    output_log,   \* logs/output.log
    a2a_log,      \* logs/a2a-messages.log
    last_agent    \* run_orchestrator's last_agent

vars == << env, fs, clock, call, ret, ncalls, pc, task, demo_mode, stage, stage_state,
           started, finished, yielded, consumed, errors_seen, stdout, output_log,
           a2a_log, last_agent >>

orch_vars == << pc, task, demo_mode, stage, stage_state, started, finished, yielded,
                consumed, errors_seen, stdout, output_log, a2a_log, last_agent >>

-----------------------------------------------------------------------------
(* Bounds of the model *)

\* tool calls in one behaviour of SpecTools
MaxCalls == 2

\* events, other than the final responses, in one run of the orchestrator
MaxEvents == 2

\* required fields that a stack_summary of SpecValidate may leave out or leave empty
MaxBad == 2

-----------------------------------------------------------------------------
(* Python str operations *)

\* Python's None, where a string is expected
None == << "<None>" >>

Whitespace == {" ", "\t", "\n"}

LowerMap ==
    [c \in {"A","B","C","D","E","F","G","H","I","J","K","L","M","N","O","P","Q","R","S","T","U","V","W","X","Y","Z"} |->
        CASE c = "A" -> "a" [] c = "B" -> "b" [] c = "C" -> "c" [] c = "D" -> "d"
          [] c = "E" -> "e" [] c = "F" -> "f" [] c = "G" -> "g" [] c = "H" -> "h"
          [] c = "I" -> "i" [] c = "J" -> "j" [] c = "K" -> "k" [] c = "L" -> "l"
          [] c = "M" -> "m" [] c = "N" -> "n" [] c = "O" -> "o" [] c = "P" -> "p"
          [] c = "Q" -> "q" [] c = "R" -> "r" [] c = "S" -> "s" [] c = "T" -> "t"
          [] c = "U" -> "u" [] c = "V" -> "v" [] c = "W" -> "w" [] c = "X" -> "x"
          [] c = "Y" -> "y" [] c = "Z" -> "z"]

\* s.lower()
lower(s) == [i \in 1..Len(s) |-> IF s[i] \in DOMAIN LowerMap THEN LowerMap[s[i]] ELSE s[i]]

\* t in s
contains(s, t) == \E i \in 1..(Len(s) - Len(t) + 1) : SubSeq(s, i, i + Len(t) - 1) = t

\* s.find(ch) + 1 for a single character: 0 when ch is not in s
index_of(s, ch) ==
    IF \E i \in 1..Len(s) : s[i] = ch
    THEN CHOOSE i \in 1..Len(s) : s[i] = ch /\ \A j \in 1..(i - 1) : s[j] # ch
    ELSE 0

\* s.strip()
strip(s) ==
    LET keep == {i \in 1..Len(s) : s[i] \notin Whitespace}
    IN  IF keep = {} THEN << >>
        ELSE LET lo == CHOOSE i \in keep : \A j \in keep : i <= j
                 hi == CHOOSE i \in keep : \A j \in keep : j <= i
             IN  SubSeq(s, lo, hi)

\* s.replace(a, b) for single characters
replace(s, a, b) == [i \in 1..Len(s) |-> IF s[i] = a THEN b ELSE s[i]]

\* s.split(ch)
RECURSIVE split(_, _)
split(s, ch) ==
    LET i == index_of(s, ch)
    IN  IF i = 0 THEN << s >>
        ELSE << SubSeq(s, 1, i - 1) >> \o split(SubSeq(s, i + 1, Len(s)), ch)

\* d with d[k] = v
dict_set(d, k, v) == [x \in (DOMAIN d) \cup {k} |-> IF x = k THEN v ELSE d[x]]

\* d.get(k, default)
dict_get(d, k, default) == IF k \in DOMAIN d THEN d[k] ELSE default

EmptyDict == [x \in {} |-> << >>]

-----------------------------------------------------------------------------
(* The environment and the file system *)

Unset == "<unset>"

\* the values of ADK_OUTPUT_DIR considered
EnvValues == {Unset, "/data"}

Dirs == {"./test-outputs", "/app/outputs", "/data"}

\* os.getenv(name, default)
getenv(e, default) == IF e = Unset THEN default ELSE e

Files == {
    "user-task.txt", "platform-architect-debug.log", "platform-config.yaml",
    "platform-decisions.json", "docker-compose/app-stack.yml", "setup-jenkins.sh",
    "infrastructure-decisions.json", "security-report.json",
    "grafana-dashboards/app-metrics.json", "grafana-dashboards/system-metrics.json",
    "docker-compose/prometheus.yml", "observability-decisions.json",
    "cli-tool/idp", "cli-tool/README.md", "devex-decisions.json",
    "portal/main.py", "portal/templates/index.html", "portal/requirements.txt",
    "portal/Dockerfile", "portal/run-portal.sh", "web-portal-decisions.json",
    "cicd-decisions.json" }

Absent == [kind |-> "absent"]

EmptyFs == [d \in Dirs |-> [f \in Files |-> Absent]]

\* Path.exists()
exists(fsys, d, f) == fsys[d][f].kind # "absent"

\* open(path, 'w').write(content)
write(fsys, d, f, content) == [fsys EXCEPT ![d][f] = content]

Text(t) == [kind |-> "text", text |-> t]

\* a json.dump that leaves the features of the configuration out
json_dump_without_features(data) ==
    [kind |-> "json", data |-> [k \in (DOMAIN data) \ {"features"} |-> data[k]]]

\* yaml.dump / yaml.safe_load and json.dump / json.load of a dictionary of strings
yaml_dump(data) == [kind |-> "yaml", data |-> data]
json_dump(data) == [kind |-> "json", data |-> data]
load(content) == content.data

-----------------------------------------------------------------------------
(* Platform Architect, platform_architect/agent.py: the stack_summary variant *)

required_fields == << <<"r","u","n","t","i","m","e">>, <<"f","r","a","m","e","w","o","r","k">>, <<"d","a","t","a","b","a","s","e">>, <<"c","a","c","h","e">>,
                      <<"m","o","n","i","t","o","r","i","n","g">>, <<"s","e","c","u","r","i","t","y">>, <<"d","e","p","l","o","y","m","e","n","t">>, <<"e","n","v","i","r","o","n","m","e","n","t">> >>

self_service_keywords == << <<"s","e","l","f","-","s","e","r","v","i","c","e">>, <<"s","e","l","f"," ","s","e","r","v","i","c","e">>, <<"a","d","d">>, <<"c","r","e","a","t","e">>,
                            <<"g","e","n","e","r","a","t","e">>, <<"p","r","o","v","i","s","i","o","n">> >>

capability(type, description) == [type |-> type, description |-> description, enabled |-> TRUE]

\* the capabilities save_platform_config detects in the user task
detect_capabilities(user_task) ==
    LET task_lower == lower(user_task)
    IN  IF user_task = << >> THEN << >>
        ELSE IF \E k \in 1..Len(self_service_keywords) : contains(task_lower, self_service_keywords[k])
        THEN (IF contains(task_lower, <<"a","d","d">>) /\ contains(task_lower, <<"d","o","c","k","e","r">>)
              THEN << capability("add_docker_service", "Self-service capability: Add Docker Service") >>
              ELSE << >>)
          \o (IF contains(task_lower, <<"t","e","r","r","a","f","o","r","m">>) \/ contains(task_lower, <<"i","n","f","r","a","s","t","r","u","c","t","u","r","e"," ","a","s"," ","c","o","d","e">>)
              THEN << capability("generate_terraform", "Self-service capability: Generate Terraform") >>
              ELSE << >>)
          \o (IF contains(task_lower, <<"p","i","p","e","l","i","n","e">>) \/ contains(task_lower, <<"c","i","/","c","d">>)
              THEN << capability("create_pipeline", "Self-service capability: Create Pipeline") >>
              ELSE << >>)
          \o (IF contains(task_lower, <<"d","a","t","a","b","a","s","e">>) /\ contains(task_lower, <<"p","r","o","v","i","s","i","o","n">>)
              THEN << capability("provision_database", "Self-service capability: Provision Database") >>
              ELSE << >>)
        ELSE << >>

\* the loop over stack_summary.split('|') that fills parts
RECURSIVE parse_items(_, _)
parse_items(items, parts) ==
    IF items = << >> THEN parts
    ELSE LET item == Head(items)
             i == index_of(item, ":")
         IN  IF i = 0 THEN parse_items(Tail(items), parts)
             ELSE parse_items(Tail(items),
                     dict_set(parts,
                              replace(lower(strip(SubSeq(item, 1, i - 1))), " ", "_"),
                              strip(SubSeq(item, i + 1, Len(item)))))

parse_stack_summary(stack_summary) == parse_items(split(stack_summary, "|"), EmptyDict)

\* a validation that takes a field with an empty value for present
missing_fields_absent_only(parts) ==
    SelectSeq(required_fields, LAMBDA field : field \notin DOMAIN parts)

\* [field for field in required_fields if field not in parts or not parts[field]]
missing_fields(parts) ==
    SelectSeq(required_fields, LAMBDA field : field \notin DOMAIN parts \/ parts[field] = << >>)

\* the config dictionary both variants of save_platform_config build
platform_config(runtime, framework, database, cache_strategy, deployment_target, deployment_environment, monitoring_metrics, monitoring_visualization, security_scanner, cicd_tool, justifications, now) ==
    [ platform |-> [ name |-> "IDP Auto-Provisioned by AI Agents (ADK Mode)",
                     version |-> "1.0.0",
                     created_at |-> now,
                     generated_by |-> "Platform Architect Agent (ADK Interactive Mode)" ],
      stack |-> [ runtime |-> runtime, framework |-> framework,
                  database |-> database, cache |-> cache_strategy ],
      infrastructure |-> [ deployment_target |-> deployment_target,
                           deployment_environment |-> deployment_environment ],
      components |-> [ monitoring |-> [ metrics |-> monitoring_metrics,
                                        visualization |-> monitoring_visualization ],
                       security |-> [ scanner |-> security_scanner, policies |-> "CIS Benchmarks" ],
                       ci_cd |-> [ provider |-> cicd_tool ] ],
      decisions_justification |-> justifications,
      metadata |-> [ ai_model |-> "gemini-2.5-flash", mode |-> "ADK Interactive",
                     decision_timestamp |-> now ] ]

\* config["features"] = {"self_service": {"enabled": True, "capabilities": [...]}}
with_features(config, capabilities) ==
    [ k \in (DOMAIN config) \cup {"features"} |->
        IF k = "features"
        THEN [ self_service |-> [ enabled |-> TRUE, capabilities |-> capabilities ] ]
        ELSE config[k] ]

\* the lines save_platform_config writes to platform-architect-debug.log before it validates
debug_log_head(task_exists, user_task, capabilities) ==
    << "header", IF task_exists THEN "task read" ELSE "task_file NO EXISTE" >>
    \o (IF user_task # << >>
        THEN << "detecting" >> \o [i \in 1..Len(capabilities) |-> capabilities[i].type]
        ELSE << >>)

\* save_platform_config(stack_summary) -> [fs, ret]
pa_save_platform_config(fsys, e, stack_summary, now) ==
    LET output_dir == getenv(e, "./test-outputs")
        task_exists == exists(fsys, output_dir, "user-task.txt")
        user_task == IF task_exists THEN strip(fsys[output_dir]["user-task.txt"].text) ELSE << >>
        capabilities == detect_capabilities(user_task)
        log1 == debug_log_head(task_exists, user_task, capabilities)
        fs1 == write(fsys, output_dir, "platform-architect-debug.log", Text(log1))
        parts == parse_stack_summary(stack_summary)
        missing == missing_fields(parts)
    IN  IF missing # << >>
        THEN [ fs |-> fs1,
               ret |-> [ status |-> "error",
                         message |-> [ text |-> "Missing required fields", fields |-> missing ],
                         example |-> "Runtime: Go 1.21 | ..." ] ]
        ELSE
        LET runtime == parts[<<"r","u","n","t","i","m","e">>]
            framework == parts[<<"f","r","a","m","e","w","o","r","k">>]
            database == parts[<<"d","a","t","a","b","a","s","e">>]
            cache_strategy == parts[<<"c","a","c","h","e">>]
            monitoring_full == parts[<<"m","o","n","i","t","o","r","i","n","g">>]
            has_plus == contains(monitoring_full, << "+" >>)
            monitoring_metrics == IF has_plus THEN split(monitoring_full, "+")[1] ELSE monitoring_full
            monitoring_visualization == IF has_plus THEN split(monitoring_full, "+")[2] ELSE <<"G","r","a","f","a","n","a">>
            security_scanner == parts[<<"s","e","c","u","r","i","t","y">>]
            cicd_tool == dict_get(parts, <<"c","i","/","c","d">>, dict_get(parts, <<"c","i","c","d">>, <<"J","e","n","k","i","n","s">>))
            deployment_target == parts[<<"d","e","p","l","o","y","m","e","n","t">>]
            deployment_environment == parts[<<"e","n","v","i","r","o","n","m","e","n","t">>]
            justifications ==
                [ runtime |-> <<"D","e","c","i","s","i","o","n"," ","b","a","s","a","d","a"," ","e","n"," ","s","t","a","c","k"," ","p","r","o","p","u","e","s","t","o",":"," ">> \o runtime,
                  framework |-> <<"D","e","c","i","s","i","o","n"," ","b","a","s","a","d","a"," ","e","n"," ","s","t","a","c","k"," ","p","r","o","p","u","e","s","t","o",":"," ">> \o framework,
                  database |-> <<"D","e","c","i","s","i","o","n"," ","b","a","s","a","d","a"," ","e","n"," ","s","t","a","c","k"," ","p","r","o","p","u","e","s","t","o",":"," ">> \o database,
                  monitoring |-> <<"D","e","c","i","s","i","o","n"," ","b","a","s","a","d","a"," ","e","n"," ","s","t","a","c","k"," ","p","r","o","p","u","e","s","t","o",":"," ">> \o monitoring_metrics
                                   \o <<" ","+"," ">> \o monitoring_visualization,
                  security |-> <<"D","e","c","i","s","i","o","n"," ","b","a","s","a","d","a"," ","e","n"," ","s","t","a","c","k"," ","p","r","o","p","u","e","s","t","o",":"," ">> \o security_scanner,
                  deployment |-> <<"D","e","c","i","s","i","o","n"," ","b","a","s","a","d","a"," ","e","n"," ","d","e","p","l","o","y","m","e","n","t",":"," ">> \o deployment_target
                                   \o <<" ","e","n"," ">> \o deployment_environment ]
            base == platform_config(runtime, framework, database, cache_strategy,
                                    deployment_target, deployment_environment,
                                    monitoring_metrics, monitoring_visualization,
                                    security_scanner, cicd_tool, justifications, now)
            config == IF capabilities # << >> THEN with_features(base, capabilities) ELSE base
            log2 == log1 \o << "total" >>
                         \o (IF capabilities # << >> THEN << "adding" >> ELSE << "NO capabilities" >>)
            fs2 == write(fs1, output_dir, "platform-architect-debug.log", Text(log2))
            fs3 == write(fs2, output_dir, "platform-config.yaml", yaml_dump(config))
            fs4 == write(fs3, output_dir, "platform-decisions.json", json_dump(config))
        IN  [ fs |-> fs4,
              ret |-> [ status |-> "success",
                        yaml_path |-> << output_dir, "platform-config.yaml" >>,
                        json_path |-> << output_dir, "platform-decisions.json" >>,
                        runtime |-> runtime, framework |-> framework, database |-> database,
                        self_service_capabilities_detected |-> Len(capabilities),
                        capabilities |-> [i \in 1..Len(capabilities) |-> capabilities[i].type] ] ]

\* a get_current_config that answers with an empty configuration where there is none
get_current_config_or_empty(fsys, e) ==
    LET output_dir == getenv(e, "./test-outputs")
    IN  IF ~exists(fsys, output_dir, "platform-config.yaml")
        THEN [ fs |-> write(fsys, output_dir, "platform-config.yaml", yaml_dump(EmptyDict)),
               ret |-> [ status |-> "found", config |-> EmptyDict ] ]
        ELSE [ fs |-> fsys,
               ret |-> [ status |-> "found", config |-> load(fsys[output_dir]["platform-config.yaml"]) ] ]

\* get_current_config() of either variant
get_current_config(fsys, e) ==
    LET output_dir == getenv(e, "./test-outputs")
    IN  IF ~exists(fsys, output_dir, "platform-config.yaml")
        THEN [ fs |-> fsys, ret |-> [ status |-> "not_found", message |-> "No se ha generado ninguna configuracion aun." ] ]
        ELSE [ fs |-> fsys,
               ret |-> [ status |-> "found", config |-> load(fsys[output_dir]["platform-config.yaml"]) ] ]

\* explain_decision(decision_type) of either variant
explain_decision(fsys, e, decision_type) ==
    LET output_dir == getenv(e, "./test-outputs")
    IN  IF ~exists(fsys, output_dir, "platform-config.yaml")
        THEN [ fs |-> fsys, ret |-> [ status |-> "error", message |-> "No hay configuracion generada aun." ] ]
        ELSE LET config == load(fsys[output_dir]["platform-config.yaml"])
                 justifications == config.decisions_justification
             IN  IF decision_type \notin DOMAIN justifications
                 THEN [ fs |-> fsys, ret |-> [ status |-> "error", message |-> "Tipo de decision no encontrado" ] ]
                 ELSE [ fs |-> fsys,
                        ret |-> [ status |-> "success",
                                  decision_type |-> decision_type,
                                  justification |-> justifications[decision_type],
                                  chosen_value |->
                                      IF decision_type \in DOMAIN config.stack
                                           /\ config.stack[decision_type] # << >>
                                      THEN config.stack[decision_type]
                                      ELSE IF decision_type \in DOMAIN config.components
                                      THEN config.components[decision_type]
                                      ELSE None ] ]

-----------------------------------------------------------------------------
(* Platform Architect, platform_architect_adk.py: the variant the orchestrator runs *)

\* save_platform_config(runtime, framework, ..., justification_deployment) -> [fs, ret];
\* a is the record of its sixteen arguments
adk_save_platform_config(fsys, e, a, now) ==
    LET output_dir == getenv(e, "./test-outputs")
        justifications ==
            [ runtime |-> a.justification_runtime, framework |-> a.justification_framework,
              database |-> a.justification_database, monitoring |-> a.justification_monitoring,
              security |-> a.justification_security, deployment |-> a.justification_deployment ]
        config == platform_config(a.runtime, a.framework, a.database, a.cache_strategy,
                                  a.deployment_target, a.deployment_environment,
                                  a.monitoring_metrics, a.monitoring_visualization,
                                  a.security_scanner, a.cicd_tool, justifications, now)
        fs1 == write(fsys, output_dir, "platform-config.yaml", yaml_dump(config))
        fs2 == write(fs1, output_dir, "platform-decisions.json", json_dump(config))
    IN  [ fs |-> fs2,
          ret |-> [ status |-> "success",
                    yaml_path |-> << output_dir, "platform-config.yaml" >>,
                    json_path |-> << output_dir, "platform-decisions.json" >>,
                    runtime |-> a.runtime, framework |-> a.framework, database |-> a.database ] ]

\* get_user_preferences(): user-preferences.yaml lies outside the output directory;
\* found is whether one of its three paths exists, prefs what it holds
get_user_preferences(fsys, found, prefs) ==
    IF ~found
    THEN [ fs |-> fsys,
           ret |-> [ status |-> "not_found",
                     defaults |-> [ cicd_tool |-> <<"J","e","n","k","i","n","s">>, security_scanner |-> <<"T","r","i","v","y">>,
                                    deployment_target |-> <<"D","o","c","k","e","r"," ","C","o","m","p","o","s","e">>,
                                    deployment_environment |-> <<"L","o","c","a","l">> ] ] ]
    ELSE [ fs |-> fsys, ret |-> [ status |-> "found", preferences |-> prefs ] ]

-----------------------------------------------------------------------------
(* Infrastructure, infrastructure/agent.py *)

\* OUTPUT_DIR of the infrastructure, security, observability, devex and web_portal
\* modules, read from the environment when the module is imported
OUTPUT_DIR(e) == getenv(e, "/app/outputs")

\* get_platform_config()
infra_get_platform_config(fsys, e) ==
    IF ~exists(fsys, OUTPUT_DIR(e), "platform-config.yaml")
    THEN [ fs |-> fsys, ret |-> [ error |-> "Platform config no encontrado. Platform Architect debe ejecutarse primero." ] ]
    ELSE LET config == load(fsys[OUTPUT_DIR(e)]["platform-config.yaml"])
         IN  [ fs |-> fsys,
               ret |-> [ status |-> "success", config |-> config,
                         deployment_target |-> config.infrastructure.deployment_target,
                         deployment_environment |-> config.infrastructure.deployment_environment,
                         runtime |-> config.stack.runtime, framework |-> config.stack.framework,
                         database |-> config.stack.database, cache |-> config.stack.cache ] ]

\* parse_provider_string: re.match(r'^([^(]+)\s*\(Image:\s*([^)]+)\)', provider_str);
\* returns << base provider, specified image >>
parse_provider_string(provider_str) ==
    IF provider_str = << >> \/ provider_str = <<"U","n","k","n","o","w","n">> THEN << provider_str, None >>
    ELSE LET open == index_of(provider_str, "(")
             rest == SubSeq(provider_str, open + 1, Len(provider_str))
             tag == <<"I","m","a","g","e",":">>
             after == SubSeq(rest, Len(tag) + 1, Len(rest))
             close == index_of(after, ")")
         IN  IF open >= 2 /\ Len(rest) >= Len(tag) /\ SubSeq(rest, 1, Len(tag)) = tag /\ close >= 2
             THEN << strip(SubSeq(provider_str, 1, open - 1)), strip(SubSeq(after, 1, close - 1)) >>
             ELSE << provider_str, None >>

\* a mapping that gives AWS Inspector an empty image name
scanner_images_empty_inspector == [ n \in { <<"T","r","i","v","y">>, <<"S","n","y","k">>, <<"G","r","y","p","e">>, <<"C","l","a","i","r">>, <<"A","W","S"," ","I","n","s","p","e","c","t","o","r">> } |->
    CASE n = <<"T","r","i","v","y">> -> <<"a","q","u","a","s","e","c","/","t","r","i","v","y",":","l","a","t","e","s","t">>
      [] n = <<"S","n","y","k">> -> <<"s","n","y","k","/","s","n","y","k",":","l","a","t","e","s","t">>
      [] n = <<"G","r","y","p","e">> -> <<"a","n","c","h","o","r","e","/","g","r","y","p","e",":","l","a","t","e","s","t">>
      [] n = <<"C","l","a","i","r">> -> <<"q","u","a","y",".","i","o","/","c","o","r","e","o","s","/","c","l","a","i","r",":","l","a","t","e","s","t">>
      [] n = <<"A","W","S"," ","I","n","s","p","e","c","t","o","r">> -> << >> ]

\* scanner_images
scanner_images == [ n \in { <<"T","r","i","v","y">>, <<"S","n","y","k">>, <<"G","r","y","p","e">>, <<"C","l","a","i","r">>, <<"A","W","S"," ","I","n","s","p","e","c","t","o","r">> } |->
    CASE n = <<"T","r","i","v","y">> -> <<"a","q","u","a","s","e","c","/","t","r","i","v","y",":","l","a","t","e","s","t">>
      [] n = <<"S","n","y","k">> -> <<"s","n","y","k","/","s","n","y","k",":","l","a","t","e","s","t">>
      [] n = <<"G","r","y","p","e">> -> <<"a","n","c","h","o","r","e","/","g","r","y","p","e",":","l","a","t","e","s","t">>
      [] n = <<"C","l","a","i","r">> -> <<"q","u","a","y",".","i","o","/","c","o","r","e","o","s","/","c","l","a","i","r",":","l","a","t","e","s","t">>
      [] n = <<"A","W","S"," ","I","n","s","p","e","c","t","o","r">> -> None ]

cicd_images == [ n \in { <<"J","e","n","k","i","n","s">>, <<"G","i","t","H","u","b"," ","A","c","t","i","o","n","s">>, <<"G","i","t","L","a","b"," ","C","I">>, <<"C","i","r","c","l","e","C","I">> } |->
    CASE n = <<"J","e","n","k","i","n","s">> -> <<"j","e","n","k","i","n","s","/","j","e","n","k","i","n","s",":","l","t","s">>
      [] n = <<"G","i","t","H","u","b"," ","A","c","t","i","o","n","s">> -> <<"n","e","k","t","o","s","/","a","c","t","-","e","n","v","i","r","o","n","m","e","n","t","s","-","u","b","u","n","t","u",":","1","8",".","0","4">>
      [] n = <<"G","i","t","L","a","b"," ","C","I">> -> <<"g","i","t","l","a","b","/","g","i","t","l","a","b","-","r","u","n","n","e","r",":","l","a","t","e","s","t">>
      [] n = <<"C","i","r","c","l","e","C","I">> -> <<"c","i","r","c","l","e","c","i","/","c","i","r","c","l","e","c","i","-","c","l","i",":","l","a","t","e","s","t">> ]

db_images == [ n \in { <<"P","o","s","t","g","r","e","S","Q","L">>, <<"M","y","S","Q","L">>, <<"M","o","n","g","o","D","B">>, <<"M","a","r","i","a","D","B">> } |->
    CASE n = <<"P","o","s","t","g","r","e","S","Q","L">> -> <<"p","o","s","t","g","r","e","s",":","1","5","-","a","l","p","i","n","e">>
      [] n = <<"M","y","S","Q","L">> -> <<"m","y","s","q","l",":","8","-","d","e","b","i","a","n">>
      [] n = <<"M","o","n","g","o","D","B">> -> <<"m","o","n","g","o",":","7">>
      [] n = <<"M","a","r","i","a","D","B">> -> <<"m","a","r","i","a","d","b",":","1","1">> ]

cache_images == [ n \in { <<"R","e","d","i","s">>, <<"M","e","m","c","a","c","h","e","d">> } |->
    CASE n = <<"R","e","d","i","s">> -> <<"r","e","d","i","s",":","7","-","a","l","p","i","n","e">>
      [] n = <<"M","e","m","c","a","c","h","e","d">> -> <<"m","e","m","c","a","c","h","e","d",":","1",".","6","-","a","l","p","i","n","e">> ]

\* a selection that asks the mapping first
select_image_mapping_first(specified_image, images, name) ==
    IF name \in DOMAIN images /\ images[name] # None THEN images[name]
    ELSE IF specified_image # None /\ specified_image # << >> THEN specified_image
    ELSE None

\* specified_image or images.get(name)
select_image(specified_image, images, name) ==
    IF specified_image # None /\ specified_image # << >> THEN specified_image
    ELSE dict_get(images, name, None)

\* len(yaml_content) below which save_docker_compose takes the default template
DefaultTemplateLen == 50

\* a test that takes a document of exactly the limit for too short
is_default_template_up_to_limit(yaml_content) ==
    yaml_content.text = "generate_default" \/ Len(yaml_content.text) <= DefaultTemplateLen

\* yaml_content == "generate_default" or len(yaml_content) < 50
is_default_template(yaml_content) ==
    yaml_content.text = "generate_default" \/ Len(yaml_content.text) < DefaultTemplateLen

\* the container_name of the ci-runner service
cicd_container(cicd_provider) ==
    CASE cicd_provider = <<"J","e","n","k","i","n","s">> -> <<"j","e","n","k","i","n","s">>
      [] cicd_provider = <<"G","i","t","H","u","b"," ","A","c","t","i","o","n","s">> -> <<"a","c","t","-","r","u","n","n","e","r">>
      [] cicd_provider = <<"G","i","t","L","a","b"," ","C","I">> -> <<"g","i","t","l","a","b","-","r","u","n","n","e","r">>
      [] OTHER -> <<"c","i","-","r","u","n","n","e","r">>

service(image, container_name) == [ image |-> image, container_name |-> container_name ]

\* save_docker_compose(yaml_content) -> [fs, ret].  yaml_content is
\* [text, doc]: the string and what yaml.safe_load makes of it
\* (doc.valid is false when loading it or walking it raises, else doc.services are its services).
\* A service is added where the code tests the image for truth, and available
\* is what it records: scanner_image is not None.
save_docker_compose(fsys, e, yaml_content, now) ==
    LET dir == OUTPUT_DIR(e)
        truthy(image) == image # None /\ image # << >>
        has_config == exists(fsys, dir, "platform-config.yaml")
        config == IF has_config THEN load(fsys[dir]["platform-config.yaml"]) ELSE << >>
        scanner_read == IF has_config THEN config.components.security.scanner ELSE <<"U","n","k","n","o","w","n">>
        cicd_read == IF has_config THEN config.components.ci_cd.provider ELSE <<"U","n","k","n","o","w","n">>
        runtime == IF has_config THEN config.stack.runtime ELSE <<"U","n","k","n","o","w","n">>
        scanner_parsed == parse_provider_string(scanner_read)
        cicd_parsed == parse_provider_string(cicd_read)
        scanner_name == scanner_parsed[1]
        cicd_provider == cicd_parsed[1]
        scanner_image == select_image(scanner_parsed[2], scanner_images, scanner_name)
        cicd_image == select_image(cicd_parsed[2], cicd_images, cicd_provider)
        has_portal == exists(fsys, dir, "portal/main.py")
        is_default == is_default_template(yaml_content)
        custom_ok == ~is_default /\ yaml_content.doc.valid
        adds == is_default \/ custom_ok
        version == IF contains(runtime, <<"3",".","1","1">>) THEN <<"3",".","1","1">>
                   ELSE IF contains(runtime, <<"3",".","1","2">>) THEN <<"3",".","1","2">> ELSE <<"3",".","1","1">>
        app_image == IF runtime # << >> /\ contains(lower(runtime), <<"p","y","t","h","o","n">>)
                     THEN <<"p","y","t","h","o","n",":">> \o version \o <<"-","s","l","i","m">> ELSE <<"p","y","t","h","o","n",":","3",".","1","1","-","s","l","i","m">>
        database_image == IF has_config THEN dict_get(db_images, config.stack.database, <<"p","o","s","t","g","r","e","s",":","1","5","-","a","l","p","i","n","e">>)
                          ELSE <<"p","o","s","t","g","r","e","s",":","1","5","-","a","l","p","i","n","e">>
        cache_image == IF has_config THEN dict_get(cache_images, config.stack.cache, <<"r","e","d","i","s",":","7","-","a","l","p","i","n","e">>)
                       ELSE <<"r","e","d","i","s",":","7","-","a","l","p","i","n","e">>
        base_services ==
            IF is_default
            THEN [ n \in {"app", "database", "cache", "prometheus", "grafana"} |->
                     CASE n = "app" -> service(app_image, <<"i","d","p","-","d","u","m","m","y","-","a","p","p">>)
                       [] n = "database" -> service(database_image, <<"d","a","t","a","b","a","s","e">>)
                       [] n = "cache" -> service(cache_image, <<"c","a","c","h","e">>)
                       [] n = "prometheus" -> service(<<"p","r","o","m","/","p","r","o","m","e","t","h","e","u","s",":","l","a","t","e","s","t">>, <<"p","r","o","m","e","t","h","e","u","s">>)
                       [] n = "grafana" -> service(<<"g","r","a","f","a","n","a","/","g","r","a","f","a","n","a",":","l","a","t","e","s","t">>, <<"g","r","a","f","a","n","a">>) ]
            ELSE IF custom_ok THEN yaml_content.doc.services ELSE EmptyDict
        scanner_service_name == IF adds /\ truthy(scanner_image) THEN <<"s","e","c","u","r","i","t","y","-","s","c","a","n","n","e","r">> ELSE None
        cicd_service_name == IF adds /\ truthy(cicd_image) THEN <<"c","i","-","r","u","n","n","e","r">> ELSE None
        s1 == IF scanner_service_name # None
              THEN dict_set(base_services, "security-scanner",
                            service(scanner_image, lower(scanner_name) \o <<"-","s","c","a","n","n","e","r">>))
              ELSE base_services
        s2 == IF cicd_service_name # None
              THEN dict_set(s1, "ci-runner", service(cicd_image, cicd_container(cicd_provider)))
              ELSE s1
        s3 == IF adds /\ has_portal
              THEN dict_set(s2, "web-portal", service(<<"p","y","t","h","o","n",":","3",".","1","1","-","s","l","i","m">>, <<"i","d","p","-","p","o","r","t","a","l">>))
              ELSE s2
        jenkins == cicd_provider = <<"J","e","n","k","i","n","s">> /\ truthy(cicd_image)
        compose == [ kind |-> "compose",
                     template |-> IF is_default THEN "default" ELSE IF custom_ok THEN "custom" ELSE "verbatim",
                     text |-> IF adds THEN "rendered" ELSE yaml_content.text,
                     services |-> s3,
                     jenkins_volume |-> adds /\ jenkins ]
        fs1 == write(fsys, dir, "docker-compose/app-stack.yml", compose)
        fs2 == IF jenkins THEN write(fs1, dir, "setup-jenkins.sh", Text("setup-jenkins")) ELSE fs1
        metadata ==
            [ infrastructure |-> [ type |-> "docker-compose", created_at |-> now,
                                   generated_by |-> "Infrastructure Agent (ADK)" ],
              security_scanner |-> [ scanner_chosen |-> scanner_name, scanner_image |-> scanner_image,
                                     scanner_service |-> scanner_service_name,
                                     available |-> scanner_image # None ],
              ci_cd_runner |-> [ provider |-> cicd_provider, runner_image |-> cicd_image,
                                 runner_service |-> cicd_service_name,
                                 available |-> cicd_image # None,
                                 has_web_ui |-> cicd_provider = <<"J","e","n","k","i","n","s">>,
                                 ui_url |-> IF cicd_provider = <<"J","e","n","k","i","n","s">> THEN <<"h","t","t","p",":","/","/","l","o","c","a","l","h","o","s","t",":","8","0","8","0">> ELSE None ],
              files_generated |-> [ docker_compose |-> "docker-compose/app-stack.yml",
                                    docker_compose_absolute |-> << dir, "docker-compose/app-stack.yml" >>,
                                    setup_jenkins_script |-> IF jenkins THEN <<"s","e","t","u","p","-","j","e","n","k","i","n","s",".","s","h">> ELSE None ],
              metadata |-> [ ai_model |-> "gemini-2.5-flash", decision_timestamp |-> now ] ]
        fs3 == write(fs2, dir, "infrastructure-decisions.json", json_dump(metadata))
    IN  [ fs |-> fs3,
          ret |-> [ status |-> "success", type |-> "docker-compose",
                    file_path |-> << dir, "docker-compose/app-stack.yml" >>,
                    metadata_path |-> << dir, "infrastructure-decisions.json" >>,
                    scanner_service |-> scanner_service_name ] ]

\* save_kubernetes_manifests, save_terraform_config, save_helm_charts,
\* save_cloudformation_template: each only returns its dictionary
infra_not_implemented(fsys, tool, arg) ==
    [ fs |-> fsys,
      ret |-> [ status |-> "not_implemented",
                technology |-> CASE tool = "save_kubernetes_manifests" -> "Kubernetes"
                                 [] tool = "save_terraform_config" -> "Terraform"
                                 [] tool = "save_helm_charts" -> "Helm"
                                 [] tool = "save_cloudformation_template" -> "AWS CloudFormation",
                suggestion |-> "Try save_docker_compose() as alternative" ] ]

-----------------------------------------------------------------------------
(* Security, security/agent.py *)

\* get_platform_config()
security_get_platform_config(fsys, e) ==
    IF ~exists(fsys, OUTPUT_DIR(e), "platform-config.yaml")
    THEN [ fs |-> fsys, ret |-> [ error |-> "Platform config no encontrado. Platform Architect debe ejecutarse primero." ] ]
    ELSE LET config == load(fsys[OUTPUT_DIR(e)]["platform-config.yaml"])
         IN  [ fs |-> fsys,
               ret |-> [ status |-> "success", config |-> config,
                         security_scanner |-> config.components.security.scanner,
                         runtime |-> config.stack.runtime, framework |-> config.stack.framework ] ]

\* get_infrastructure_decisions()
get_infrastructure_decisions(fsys, e) ==
    IF ~exists(fsys, OUTPUT_DIR(e), "infrastructure-decisions.json")
    THEN [ fs |-> fsys, ret |-> [ error |-> "Infrastructure decisions no encontrado. Infrastructure Agent debe ejecutarse primero." ] ]
    ELSE LET decisions == load(fsys[OUTPUT_DIR(e)]["infrastructure-decisions.json"])
         IN  [ fs |-> fsys,
               ret |-> [ status |-> "success", decisions |-> decisions,
                         scanner_service |-> decisions.security_scanner.scanner_service,
                         scanner_available |-> decisions.security_scanner.available,
                         scanner_image |-> decisions.security_scanner.scanner_image,
                         docker_compose_path |-> decisions.files_generated.docker_compose_absolute ] ]

\* what subprocess.run of the scanner container can do: exit with a code
\* (and findings on stdout), time out, or fail to start
ScanOutcomes ==
    { [ kind |-> "exit", code |-> c, findings |-> n ] : c \in {0, 1, 2}, n \in {0, 1} }
    \cup { [ kind |-> "timeout" ], [ kind |-> "exception" ] }

\* run_trivy_scan() -> [fs, ret, ran]; ran is whether the scanner container was started
run_trivy_scan(fsys, e, outcome, now) ==
    LET infra == get_infrastructure_decisions(fsys, e).ret
    IN  IF "error" \in DOMAIN infra
        THEN [ fs |-> fsys, ran |-> FALSE,
               ret |-> [ status |-> "error", message |-> "Cannot run scan: Infrastructure decisions no encontrado" ] ]
        ELSE IF ~infra.scanner_available
        THEN [ fs |-> fsys, ran |-> FALSE,
               ret |-> [ status |-> "error", scanner |-> "Trivy",
                         message |-> "Trivy scanner service not available in docker-compose." ] ]
        ELSE IF infra.scanner_service = None
        THEN [ fs |-> fsys, ran |-> FALSE,
               ret |-> [ status |-> "error",
                         message |-> "Scanner service or docker-compose path not found in infrastructure decisions" ] ]
        ELSE IF outcome.kind = "timeout"
        THEN [ fs |-> fsys, ran |-> TRUE,
               ret |-> [ status |-> "error", scanner |-> "Trivy", message |-> "Scan timeout (120s exceeded)" ] ]
        ELSE IF outcome.kind = "exception"
        THEN [ fs |-> fsys, ran |-> TRUE,
               ret |-> [ status |-> "error", scanner |-> "Trivy", message |-> "Error running scan" ] ]
        ELSE IF outcome.code \in {0, 1}
        THEN LET report ==
                    [ security_scan |-> [ tool |-> "Trivy", execution_method |-> "docker-compose service",
                                          scan_date |-> now, analyzed_by |-> "Security Agent (ADK)",
                                          exit_code |-> outcome.code ],
                      findings |-> [ vulnerabilities_found |-> outcome.findings ],
                      metadata |-> [ ai_model |-> "gemini-2.5-flash", analysis_timestamp |-> now ] ]
             IN  [ fs |-> write(fsys, OUTPUT_DIR(e), "security-report.json", json_dump(report)),
                   ran |-> TRUE,
                   ret |-> [ status |-> "success", scanner |-> "Trivy",
                             execution_method |-> "docker-compose service",
                             vulnerabilities_found |-> outcome.findings,
                             report_path |-> << OUTPUT_DIR(e), "security-report.json" >>,
                             exit_code |-> outcome.code ] ]
        ELSE [ fs |-> fsys, ran |-> TRUE,
               ret |-> [ status |-> "error", scanner |-> "Trivy", message |-> "Trivy scan failed" ] ]

\* run_snyk_scan() -> [fs, ret, ran]
run_snyk_scan(fsys, e, outcome) ==
    LET infra == get_infrastructure_decisions(fsys, e).ret
    IN  IF "error" \in DOMAIN infra
        THEN [ fs |-> fsys, ran |-> FALSE,
               ret |-> [ status |-> "error", message |-> "Cannot run scan: Infrastructure decisions no encontrado" ] ]
        ELSE IF ~infra.scanner_available
        THEN [ fs |-> fsys, ran |-> FALSE,
               ret |-> [ status |-> "not_implemented", scanner |-> "Snyk",
                         message |-> "Snyk scanner service not available. Infrastructure Agent did not generate it." ] ]
        ELSE IF outcome.kind \in {"timeout", "exception"} \/ infra.scanner_service = None
        THEN [ fs |-> fsys, ran |-> infra.scanner_service # None,
               ret |-> [ status |-> "error", scanner |-> "Snyk", message |-> "Error running Snyk scan" ] ]
        ELSE [ fs |-> fsys, ran |-> TRUE,
               ret |-> [ status |-> "success", scanner |-> "Snyk",
                         execution_method |-> "docker-compose service" ] ]

\* a run_grype_scan that claims to have scanned
run_grype_scan_reporting_success(fsys) ==
    [ fs |-> fsys, ret |-> [ status |-> "success", scanner |-> "Grype" ] ]

\* run_grype_scan()
run_grype_scan(fsys) ==
    [ fs |-> fsys,
      ret |-> [ status |-> "not_implemented", scanner |-> "Grype",
                message |-> "Grype scan execution not fully implemented yet.",
                suggestion |-> "Try run_trivy_scan() as alternative" ] ]

\* a save_security_report that puts its findings into the decisions of the infrastructure
save_security_report_into_decisions(fsys, e, vulnerabilities, risk_level, now) ==
    LET report == [ security_scan |-> [ scan_date |-> now, analyzed_by |-> "Security Agent (ADK)" ],
                    findings |-> [ vulnerabilities_found |-> vulnerabilities, risk_level |-> risk_level ],
                    metadata |-> [ ai_model |-> "gemini-2.5-flash", analysis_timestamp |-> now ] ]
    IN  [ fs |-> write(fsys, OUTPUT_DIR(e), "infrastructure-decisions.json", json_dump(report)),
          ret |-> [ status |-> "success",
                    report_path |-> << OUTPUT_DIR(e), "infrastructure-decisions.json" >>,
                    vulnerabilities |-> vulnerabilities, risk_level |-> risk_level ] ]

\* save_security_report(vulnerabilities, risk_level, recommendations)
save_security_report(fsys, e, vulnerabilities, risk_level, now) ==
    LET report == [ security_scan |-> [ scan_date |-> now, analyzed_by |-> "Security Agent (ADK)" ],
                    findings |-> [ vulnerabilities_found |-> vulnerabilities, risk_level |-> risk_level ],
                    metadata |-> [ ai_model |-> "gemini-2.5-flash", analysis_timestamp |-> now ] ]
    IN  [ fs |-> write(fsys, OUTPUT_DIR(e), "security-report.json", json_dump(report)),
          ret |-> [ status |-> "success",
                    report_path |-> << OUTPUT_DIR(e), "security-report.json" >>,
                    vulnerabilities |-> vulnerabilities, risk_level |-> risk_level ] ]

-----------------------------------------------------------------------------
(* Observability, observability/agent.py *)

\* get_platform_config()
observability_get_platform_config(fsys, e) ==
    IF ~exists(fsys, OUTPUT_DIR(e), "platform-config.yaml")
    THEN [ fs |-> fsys, ret |-> [ error |-> "Platform config no encontrado. Platform Architect debe ejecutarse primero." ] ]
    ELSE LET config == load(fsys[OUTPUT_DIR(e)]["platform-config.yaml"])
             metrics == config.components.monitoring.metrics
             visualization == config.components.monitoring.visualization
         IN  [ fs |-> fsys,
               ret |-> [ status |-> "success", config |-> config,
                         monitoring_stack |-> metrics \o << "+" >> \o visualization,
                         monitoring_metrics |-> metrics,
                         monitoring_visualization |-> visualization ] ]

\* setup_prometheus_grafana(dashboards)
setup_prometheus_grafana(fsys, e, dashboards, now) ==
    LET dir == OUTPUT_DIR(e)
        fs1 == write(fsys, dir, "grafana-dashboards/app-metrics.json", Text("IDP Application Metrics"))
        fs2 == write(fs1, dir, "grafana-dashboards/system-metrics.json", Text("IDP System Metrics"))
        fs3 == write(fs2, dir, "docker-compose/prometheus.yml", Text("prometheus_config"))
        metadata == [ observability |-> [ monitoring_stack |-> "Prometheus+Grafana",
                                          dashboards_created |-> << "app-metrics.json", "system-metrics.json" >>,
                                          configs_created |-> << "prometheus.yml" >>,
                                          created_at |-> now,
                                          generated_by |-> "Observability Agent (ADK)" ],
                      metadata |-> [ ai_model |-> "gemini-2.5-flash", decision_timestamp |-> now ] ]
        fs4 == write(fs3, dir, "observability-decisions.json", json_dump(metadata))
    IN  [ fs |-> fs4,
          ret |-> [ status |-> "success", monitoring_stack |-> "Prometheus+Grafana",
                    dashboards_dir |-> << dir, "grafana-dashboards" >>,
                    prometheus_config |-> << dir, "docker-compose/prometheus.yml" >>,
                    metadata_path |-> << dir, "observability-decisions.json" >> ] ]

\* setup_datadog, setup_cloudwatch, setup_new_relic: each only returns its dictionary
observability_not_implemented(fsys, tool, arg) ==
    [ fs |-> fsys,
      ret |-> [ status |-> "not_implemented",
                monitoring_stack |-> CASE tool = "setup_datadog" -> "Datadog"
                                       [] tool = "setup_cloudwatch" -> "CloudWatch"
                                       [] tool = "setup_new_relic" -> "New Relic",
                suggestion |-> "Try setup_prometheus_grafana() as alternative" ] ]

-----------------------------------------------------------------------------
(* DevEx, devex/agent.py *)

\* len(cli_summary) below which save_cli_tool generates the default CLI tool
DefaultCliLen == 100

\* save_cli_tool(cli_summary); cli_summary is [text, len, commands]: the string,
\* its length and the COMMANDS section it holds (None without one)
save_cli_tool(fsys, e, cli_summary, now) ==
    LET dir == OUTPUT_DIR(e)
        docker_compose_path ==
            IF exists(fsys, dir, "infrastructure-decisions.json")
            THEN load(fsys[dir]["infrastructure-decisions.json"]).files_generated.docker_compose
            ELSE "docker-compose.yml"
        is_default == cli_summary.text = "generate_default" \/ cli_summary.len = 0
                        \/ cli_summary.len < DefaultCliLen
        commands == IF is_default THEN <<"i","n","i","t",",","b","u","i","l","d",",","t","e","s","t",",","d","e","p","l","o","y",",","s","t","a","t","u","s",",","l","o","g","s",",","h","e","l","p",",","u","p",",","d","o","w","n",",","s","c","a","n">>
                    ELSE IF cli_summary.commands # None THEN cli_summary.commands
                    ELSE <<"i","n","i","t",",","b","u","i","l","d",",","t","e","s","t",",","d","e","p","l","o","y",",","h","e","l","p">>
        fs1 == write(fsys, dir, "cli-tool/idp",
                     IF is_default THEN [ kind |-> "script", compose |-> docker_compose_path ]
                     ELSE Text(cli_summary.text))
        fs2 == write(fs1, dir, "cli-tool/README.md", Text(IF is_default THEN "IDP CLI Tool" ELSE cli_summary.text))
        metadata == [ devex |-> [ cli_tool |-> "idp", created_at |-> now,
                                  generated_by |-> "DevEx Agent (ADK Interactive)" ],
                      commands |-> [ description |-> commands ],
                      metadata |-> [ ai_model |-> "gemini-2.5-flash", decision_timestamp |-> now ] ]
        fs3 == write(fs2, dir, "devex-decisions.json", json_dump(metadata))
    IN  [ fs |-> fs3,
          ret |-> [ status |-> "success", cli_path |-> << dir, "cli-tool/idp" >>,
                    readme_path |-> << dir, "cli-tool/README.md" >>, commands |-> commands ] ]

\* get_platform_config()
devex_get_platform_config(fsys, e) ==
    IF ~exists(fsys, OUTPUT_DIR(e), "platform-config.yaml")
    THEN [ fs |-> fsys, ret |-> [ error |-> "Platform config no encontrado" ] ]
    ELSE LET config == load(fsys[OUTPUT_DIR(e)]["platform-config.yaml"])
         IN  [ fs |-> fsys,
               ret |-> [ status |-> "success", config |-> config, framework |-> config.stack.framework ] ]

-----------------------------------------------------------------------------
(* Web Portal, web_portal/agent.py *)

decision_files == { "platform-decisions.json", "infrastructure-decisions.json", "security-report.json",
                    "cicd-decisions.json", "observability-decisions.json", "devex-decisions.json" }

\* read_idp_configuration()
read_idp_configuration(fsys, e) ==
    LET dir == OUTPUT_DIR(e)
    IN  IF ~exists(fsys, dir, "platform-config.yaml")
        THEN [ fs |-> fsys,
               ret |-> [ error |-> "Platform config no encontrado. Platform Architect debe ejecutarse primero.",
                         status |-> "error" ] ]
        ELSE LET platform_config_ == load(fsys[dir]["platform-config.yaml"])
                 compose == fsys[dir]["docker-compose/app-stack.yml"]
                 services == IF compose.kind = "compose" /\ compose.template # "verbatim"
                             THEN compose.services ELSE EmptyDict
                 decisions == [ f \in { d \in decision_files : exists(fsys, dir, d) } |-> load(fsys[dir][f]) ]
                 capabilities ==
                    IF "features" \in DOMAIN platform_config_
                         /\ platform_config_.features.self_service.enabled
                    THEN platform_config_.features.self_service.capabilities
                    ELSE << >>
             IN  [ fs |-> fsys,
                   ret |-> [ status |-> "success",
                             platform |-> platform_config_.platform,
                             stack |-> platform_config_.stack,
                             components |-> platform_config_.components,
                             platform_config |-> platform_config_,
                             services |-> services,
                             decisions |-> decisions,
                             self_service_capabilities |-> capabilities,
                             total_services |-> Cardinality(DOMAIN services),
                             output_dir |-> dir ] ]

\* generate_portal(action)
generate_portal(fsys, e, action, now) ==
    LET dir == OUTPUT_DIR(e)
        idp_config == read_idp_configuration(fsys, e).ret
    IN  IF idp_config.status = "error"
        THEN [ fs |-> fsys, ret |-> [ status |-> "error", message |-> idp_config.error ] ]
        ELSE LET services == idp_config.services
                 fs1 == write(fsys, dir, "portal/main.py", [ kind |-> "portal", services |-> DOMAIN services ])
                 fs2 == write(fs1, dir, "portal/templates/index.html", Text("index.html"))
                 fs3 == write(fs2, dir, "portal/requirements.txt", Text("requirements"))
                 fs4 == write(fs3, dir, "portal/Dockerfile", Text("Dockerfile"))
                 metadata == [ web_portal |-> [ framework |-> "FastAPI + Jinja2",
                                                services_count |-> Cardinality(DOMAIN services),
                                                created_at |-> now,
                                                generated_by |-> "Web Portal Agent (ADK)" ] ]
                 fs5 == write(fs4, dir, "web-portal-decisions.json", json_dump(metadata))
                 fs6 == write(fs5, dir, "portal/run-portal.sh", Text("run-portal"))
             IN  [ fs |-> fs6,
                   ret |-> [ status |-> "success", portal_dir |-> << dir, "portal" >>,
                             services_count |-> Cardinality(DOMAIN services) ] ]

-----------------------------------------------------------------------------
(* The arguments the tools are called with *)

\* the task of the orchestrator's __main__ and the three of the Platform
\* Architect's instruction
TaskDefault == <<"B","u","i","l","d"," ","a","n"," ","I","n","t","e","r","n","a","l"," ","D","e","v","e","l","o","p","e","r"," ","P","l","a","t","f","o","r","m">>
TaskDocker == <<"B","u","i","l","d"," ","I","D","P"," ","w","i","t","h"," ","s","e","l","f","-","s","e","r","v","i","c","e"," ","f","o","r"," ","a","d","d","i","n","g"," ","D","o","c","k","e","r"," ","s","e","r","v","i","c","e","s">>
TaskThree == <<"B","u","i","l","d"," ","I","D","P"," ","w","h","e","r","e"," ","u","s","e","r","s"," ","c","a","n"," ","a","d","d"," ","D","o","c","k","e","r"," ","s","e","r","v","i","c","e","s",","," ","g","e","n","e","r","a","t","e"," ","T","e","r","r","a","f","o","r","m"," ","m","o","d","u","l","e","s",","," ","a","n","d"," ","c","r","e","a","t","e"," ","C","I","/","C","D"," ","p","i","p","e","l","i","n","e","s">>
TaskPortal == <<"B","u","i","l","d"," ","I","D","P"," ","w","i","t","h"," ","s","e","l","f","-","s","e","r","v","i","c","e"," ","p","o","r","t","a","l"," ","f","o","r"," ","p","r","o","v","i","s","i","o","n","i","n","g"," ","d","a","t","a","b","a","s","e","s"," ","a","n","d"," ","S","3"," ","b","u","c","k","e","t","s">>

Tasks == { TaskDefault, TaskDocker, TaskThree, TaskPortal }

\* the example of save_platform_config's error dictionary and variations of it
SummaryGo == <<"R","u","n","t","i","m","e",":"," ","G","o"," ","1",".","2","1"," ","|"," ","F","r","a","m","e","w","o","r","k",":"," ","G","i","n"," ","|"," ","D","a","t","a","b","a","s","e",":"," ","P","o","s","t","g","r","e","S","Q","L"," ","|"," ","C","a","c","h","e",":"," ","R","e","d","i","s"," ","|"," ","M","o","n","i","t","o","r","i","n","g",":"," ","P","r","o","m","e","t","h","e","u","s","+","G","r","a","f","a","n","a"," ","|"," ","S","e","c","u","r","i","t","y",":"," ","T","r","i","v","y"," ","|"," ","C","I","/","C","D",":"," ","J","e","n","k","i","n","s"," ","|"," ","D","e","p","l","o","y","m","e","n","t",":"," ","D","o","c","k","e","r"," ","C","o","m","p","o","s","e"," ","|"," ","E","n","v","i","r","o","n","m","e","n","t",":"," ","L","o","c","a","l">>
SummaryPython == <<"r","u","n","t","i","m","e",":","P","y","t","h","o","n"," ","3",".","1","2","|","f","r","a","m","e","w","o","r","k",":","F","a","s","t","A","P","I","|","d","a","t","a","b","a","s","e",":","M","y","S","Q","L","|","c","a","c","h","e",":","M","e","m","c","a","c","h","e","d","|","m","o","n","i","t","o","r","i","n","g",":","D","a","t","a","d","o","g","|","s","e","c","u","r","i","t","y",":","S","n","y","k"," ","(","I","m","a","g","e",":"," ","s","n","y","k","/","s","n","y","k",":","a","l","p","i","n","e",")","|","c","i","c","d",":","G","i","t","H","u","b"," ","A","c","t","i","o","n","s","|","d","e","p","l","o","y","m","e","n","t",":","K","u","b","e","r","n","e","t","e","s","|","e","n","v","i","r","o","n","m","e","n","t",":","A","W","S">>
SummaryNoSecurity == <<"R","u","n","t","i","m","e",":"," ","G","o"," ","1",".","2","1"," ","|"," ","F","r","a","m","e","w","o","r","k",":"," ","G","i","n"," ","|"," ","D","a","t","a","b","a","s","e",":"," ","P","o","s","t","g","r","e","S","Q","L"," ","|"," ","C","a","c","h","e",":"," ","R","e","d","i","s"," ","|"," ","M","o","n","i","t","o","r","i","n","g",":"," ","P","r","o","m","e","t","h","e","u","s","+","G","r","a","f","a","n","a"," ","|"," ","C","I","/","C","D",":"," ","J","e","n","k","i","n","s"," ","|"," ","D","e","p","l","o","y","m","e","n","t",":"," ","D","o","c","k","e","r"," ","C","o","m","p","o","s","e"," ","|"," ","E","n","v","i","r","o","n","m","e","n","t",":"," ","L","o","c","a","l">>

Summaries == { SummaryGo, SummaryPython, SummaryNoSecurity }

\* two calls of the sixteen-argument save_platform_config
AdkArgs(runtime, framework, database, cache, scanner, cicd) ==
    [ runtime |-> runtime, framework |-> framework, database |-> database,
      monitoring_metrics |-> <<"P","r","o","m","e","t","h","e","u","s">>, monitoring_visualization |-> <<"G","r","a","f","a","n","a">>,
      security_scanner |-> scanner, cicd_tool |-> cicd, cache_strategy |-> cache,
      deployment_target |-> <<"D","o","c","k","e","r"," ","C","o","m","p","o","s","e">>, deployment_environment |-> <<"L","o","c","a","l">>,
      justification_runtime |-> <<"w","h","y"," ">> \o runtime,
      justification_framework |-> <<"w","h","y"," ">> \o framework,
      justification_database |-> <<"w","h","y"," ">> \o database,
      justification_monitoring |-> <<"w","h","y"," ","P","r","o","m","e","t","h","e","u","s">>,
      justification_security |-> <<"w","h","y"," ">> \o scanner,
      justification_deployment |-> <<"w","h","y"," ","D","o","c","k","e","r"," ","C","o","m","p","o","s","e">> ]

AdkCalls == { AdkArgs(<<"P","y","t","h","o","n"," ","3",".","1","1">>, <<"F","a","s","t","A","P","I">>, <<"P","o","s","t","g","r","e","S","Q","L">>, <<"R","e","d","i","s">>, <<"T","r","i","v","y">>,
                      <<"J","e","n","k","i","n","s"," ","(","I","m","a","g","e",":"," ","j","e","n","k","i","n","s","/","j","e","n","k","i","n","s",":","l","t","s","-","j","d","k","1","7","-","b","l","u","e","o","c","e","a","n",")">>),
              AdkArgs(<<"G","o"," ","1",".","2","1">>, <<"G","i","n">>, <<"M","o","n","g","o","D","B">>, <<"R","e","d","i","s">>, <<"A","W","S"," ","I","n","s","p","e","c","t","o","r">>, <<"b","a","s","h"," ","s","c","r","i","p","t","s">>) }

GenerateDefault == [ text |-> "generate_default", doc |-> [ valid |-> FALSE ] ]

\* compose documents an agent may pass to save_docker_compose
ComposeDocs ==
    { GenerateDefault,
      [ text |-> "services:                   {web: {image: nginx}}",
        doc |-> [ valid |-> TRUE, services |-> [ n \in {"web"} |-> service(<<"n","g","i","n","x">>, <<"w","e","b">>) ] ] ],
      [ text |-> "services:        {web: {image: nginx:1.27-alpine}}",
        doc |-> [ valid |-> TRUE, services |-> [ n \in {"web"} |-> service(<<"n","g","i","n","x",":","1",".","2","7","-","a","l","p","i","n","e">>, <<"w","e","b">>) ] ] ],
      [ text |-> "services:                                        [unbalanced", doc |-> [ valid |-> FALSE ] ] }

CliSummaries ==
    { [ text |-> "generate_default", len |-> 16, commands |-> None ],
      [ text |-> "SCRIPT: ... | README: ... | COMMANDS: up,down", len |-> DefaultCliLen,
        commands |-> <<"u","p",",","d","o","w","n">> ] }

DecisionTypes == { "runtime", "security", "cost" }

ToolArgs == { "generate_default", "custom" }

-----------------------------------------------------------------------------
(* Tool calls.  An agent's tool runs when its agent is asked to: in an       *)
(* interactive session (pc = "interactive") any agent at any time, in the  *)
(* orchestrator's run the sub-agent whose turn it is.  In the run the call *)
(* is an event with a function_call part, which the loop of                *)
(* run_orchestrator prints and, in demo mode, logs.                        *)

\* the sub-agents in the opposite order
sub_agents_reversed == << "web_portal", "devex", "observability", "cicd", "security",
                          "infrastructure", "platform_architect" >>

\* orchestrator.sub_agents, by the name of each agent
sub_agents == << "platform_architect", "infrastructure", "security", "cicd",
                 "observability", "devex", "web_portal" >>

\* whether the agent may call a tool now
may_call(agent) ==
    \/ pc = "interactive" /\ ncalls < MaxCalls
    \/ /\ pc = "running" /\ stage_state = "running" /\ sub_agents[stage] = agent
       /\ yielded - Len(finished) < MaxEvents

\* the loop body of run_orchestrator for an event with a function_call part
function_call_event ==
    IF pc = "interactive" THEN UNCHANGED orch_vars
    ELSE /\ yielded' = yielded + 1
         /\ consumed' = consumed + 1
         /\ stdout' = IF demo_mode THEN Append(stdout, "Ejecutando") ELSE stdout
         /\ UNCHANGED << pc, task, demo_mode, stage, stage_state, started, finished,
                         errors_seen, output_log, a2a_log, last_agent >>

\* the tool's effect r = [fs, ret] takes place
tool_call(agent, tool, arg, r) ==
    /\ fs' = r.fs
    /\ ret' = r.ret
    /\ call' = [ agent |-> agent, tool |-> tool, arg |-> arg ]
    /\ clock' = clock + 1
    /\ ncalls' = ncalls + 1
    /\ UNCHANGED env
    /\ function_call_event

\* platform_architect/agent.py, reached only interactively (root_agent)
PaSavePlatformConfig ==
    /\ pc = "interactive" /\ ncalls < MaxCalls
    /\ \E s \in Summaries :
         tool_call("platform_architect", "save_platform_config", s,
                   pa_save_platform_config(fs, env, s, clock))

PaGetCurrentConfig ==
    /\ pc = "interactive" /\ ncalls < MaxCalls
    /\ tool_call("platform_architect", "get_current_config", << >>, get_current_config(fs, env))

PaExplainDecision ==
    /\ pc = "interactive" /\ ncalls < MaxCalls
    /\ \E t \in DecisionTypes :
         tool_call("platform_architect", "explain_decision", t, explain_decision(fs, env, t))

\* platform_architect_adk.py, the orchestrator's first sub-agent
AdkSavePlatformConfig ==
    /\ may_call("platform_architect")
    /\ \E a \in AdkCalls :
         tool_call("platform_architect_adk", "save_platform_config", a,
                   adk_save_platform_config(fs, env, a, clock))

AdkGetCurrentConfig ==
    /\ may_call("platform_architect")
    /\ tool_call("platform_architect_adk", "get_current_config", << >>, get_current_config(fs, env))

AdkExplainDecision ==
    /\ may_call("platform_architect")
    /\ \E t \in DecisionTypes :
         tool_call("platform_architect_adk", "explain_decision", t, explain_decision(fs, env, t))

AdkGetUserPreferences ==
    /\ may_call("platform_architect")
    /\ \E found \in BOOLEAN :
         tool_call("platform_architect_adk", "get_user_preferences", found,
                   get_user_preferences(fs, found, [ cicd_tool |-> <<"J","e","n","k","i","n","s">>, security_scanner |-> <<"T","r","i","v","y">> ]))

InfraGetPlatformConfig ==
    /\ may_call("infrastructure")
    /\ tool_call("infrastructure", "get_platform_config", << >>, infra_get_platform_config(fs, env))

SaveDockerCompose ==
    /\ may_call("infrastructure")
    /\ \E y \in ComposeDocs :
         tool_call("infrastructure", "save_docker_compose", y, save_docker_compose(fs, env, y, clock))

InfraNotImplemented ==
    /\ may_call("infrastructure")
    /\ \E t \in { "save_kubernetes_manifests", "save_terraform_config", "save_helm_charts",
                  "save_cloudformation_template" }, a \in ToolArgs :
         tool_call("infrastructure", t, a, infra_not_implemented(fs, t, a))

SecurityGetPlatformConfig ==
    /\ may_call("security")
    /\ tool_call("security", "get_platform_config", << >>, security_get_platform_config(fs, env))

GetInfrastructureDecisions ==
    /\ may_call("security")
    /\ tool_call("security", "get_infrastructure_decisions", << >>, get_infrastructure_decisions(fs, env))

RunTrivyScan ==
    /\ may_call("security")
    /\ \E o \in ScanOutcomes :
         LET r == run_trivy_scan(fs, env, o, clock)
         IN  tool_call("security", "run_trivy_scan", [ ran |-> r.ran ], r)

RunSnykScan ==
    /\ may_call("security")
    /\ \E o \in ScanOutcomes :
         LET r == run_snyk_scan(fs, env, o)
         IN  tool_call("security", "run_snyk_scan", [ ran |-> r.ran ], r)

RunGrypeScan ==
    /\ may_call("security")
    /\ tool_call("security", "run_grype_scan", << >>, run_grype_scan(fs))

SaveSecurityReport ==
    /\ may_call("security")
    /\ \E v \in {0, 3}, risk \in { "LOW", "HIGH" } :
         tool_call("security", "save_security_report", << v, risk >>,
                   save_security_report(fs, env, v, risk, clock))

ObservabilityGetPlatformConfig ==
    /\ may_call("observability")
    /\ tool_call("observability", "get_platform_config", << >>, observability_get_platform_config(fs, env))

SetupPrometheusGrafana ==
    /\ may_call("observability")
    /\ \E a \in ToolArgs :
         tool_call("observability", "setup_prometheus_grafana", a, setup_prometheus_grafana(fs, env, a, clock))

ObservabilityNotImplemented ==
    /\ may_call("observability")
    /\ \E t \in { "setup_datadog", "setup_cloudwatch", "setup_new_relic" }, a \in ToolArgs :
         tool_call("observability", t, a, observability_not_implemented(fs, t, a))

SaveCliTool ==
    /\ may_call("devex")
    /\ \E c \in CliSummaries :
         tool_call("devex", "save_cli_tool", c, save_cli_tool(fs, env, c, clock))

DevexGetPlatformConfig ==
    /\ may_call("devex")
    /\ tool_call("devex", "get_platform_config", << >>, devex_get_platform_config(fs, env))

ReadIdpConfiguration ==
    /\ may_call("web_portal")
    /\ tool_call("web_portal", "read_idp_configuration", << >>, read_idp_configuration(fs, env))

GeneratePortal ==
    /\ may_call("web_portal")
    /\ \E a \in ToolArgs :
         tool_call("web_portal", "generate_portal", a, generate_portal(fs, env, a, clock))

\* the tools of the sub-agents of the orchestrator
PipelineTools ==
    \/ AdkSavePlatformConfig \/ AdkGetCurrentConfig \/ AdkExplainDecision \/ AdkGetUserPreferences
    \/ InfraGetPlatformConfig \/ SaveDockerCompose \/ InfraNotImplemented
    \/ SecurityGetPlatformConfig \/ GetInfrastructureDecisions \/ RunTrivyScan \/ RunSnykScan
    \/ RunGrypeScan \/ SaveSecurityReport
    \/ ObservabilityGetPlatformConfig \/ SetupPrometheusGrafana \/ ObservabilityNotImplemented
    \/ SaveCliTool \/ DevexGetPlatformConfig
    \/ ReadIdpConfiguration \/ GeneratePortal

\* last_agent = None
NoAgent == "none"

NoCall == [ agent |-> "none", tool |-> "none", arg |-> << >> ]
NoRet == [ status |-> "none" ]

\* an interactive session: the output directory is empty or holds the
\* user-task.txt an earlier run of the orchestrator left
InitTools ==
    /\ env \in EnvValues
    /\ \E t \in { << >>, TaskDocker, TaskThree, TaskPortal } :
         fs = IF t = << >> THEN EmptyFs
              ELSE write(EmptyFs, getenv(env, "./test-outputs"), "user-task.txt", Text(t))
    /\ clock = 0 /\ call = NoCall /\ ret = NoRet /\ ncalls = 0
    /\ pc = "interactive" /\ task = << >> /\ demo_mode = FALSE
    /\ stage = 0 /\ stage_state = "idle" /\ started = << >> /\ finished = << >>
    /\ yielded = 0 /\ consumed = 0 /\ errors_seen = 0
    /\ stdout = << >> /\ output_log = << >> /\ a2a_log = << >> /\ last_agent = NoAgent

NextTools == PaSavePlatformConfig \/ PaGetCurrentConfig \/ PaExplainDecision \/ PipelineTools

SpecTools == InitTools /\ [][NextTools]_vars

-----------------------------------------------------------------------------
(* run_orchestrator, orchestrator_adk.py.  runner.run yields the events of *)
(* the sub-agents, one sub-agent after the other; the for-loop takes each  *)
(* event as it is yielded.                                                 *)

\* log_a2a(from_agent, to_agent, message)
log_a2a(log, from_agent, to_agent, message) == Append(log, << from_agent, to_agent, message >>)

\* the start of run_orchestrator, up to the call of runner.run
RunOrchestrator ==
    /\ pc = "idle"
    /\ pc' = "running"
    /\ output_log' = IF demo_mode
                     THEN << "# output.log", "ORCHESTRATOR INICIANDO", "Tarea",
                             "Session creada", "Ejecutando SequentialAgent" >>
                     ELSE output_log
    /\ a2a_log' = IF demo_mode THEN << << "# a2a-messages.log" >> >> ELSE a2a_log
    /\ stdout' = stdout \o << "ORCHESTRATOR INICIANDO", "Session creada" >>
    /\ fs' = write(fs, getenv(env, "./test-outputs"), "user-task.txt", Text(task))
    /\ UNCHANGED << env, clock, call, ret, ncalls, task, demo_mode, stage, stage_state,
                    started, finished, yielded, consumed, errors_seen, last_agent >>

\* SequentialAgent: the next sub-agent starts when the one before it has finished
StartSubAgent ==
    /\ pc = "running"
    /\ stage_state # "running"
    /\ stage < Len(sub_agents)
    /\ stage' = stage + 1
    /\ stage_state' = "running"
    /\ started' = Append(started, sub_agents[stage + 1])
    /\ UNCHANGED << env, fs, clock, call, ret, ncalls, pc, task, demo_mode, finished,
                    yielded, consumed, errors_seen, stdout, output_log, a2a_log, last_agent >>

\* a loop that ends the run at the first error event
ErrorEventReturns ==
    /\ pc = "running" /\ stage_state = "running"
    /\ yielded - Len(finished) < MaxEvents
    /\ yielded' = yielded + 1
    /\ consumed' = consumed + 1
    /\ errors_seen' = errors_seen + 1
    /\ stdout' = Append(stdout, "Error")
    /\ pc' = "done"
    /\ UNCHANGED << env, fs, clock, call, ret, ncalls, task, demo_mode, stage, stage_state,
                    started, finished, output_log, a2a_log, last_agent >>

\* an event for which is_error() holds
ErrorEvent ==
    /\ pc = "running" /\ stage_state = "running"
    /\ yielded - Len(finished) < MaxEvents
    /\ yielded' = yielded + 1
    /\ consumed' = consumed + 1
    /\ errors_seen' = errors_seen + 1
    /\ stdout' = Append(stdout, "Error")
    /\ output_log' = IF demo_mode THEN Append(output_log, "Error") ELSE output_log
    /\ UNCHANGED << env, fs, clock, call, ret, ncalls, pc, task, demo_mode, stage, stage_state,
                    started, finished, a2a_log, last_agent >>

\* the sub-agent's final response: an event with text for which is_final_response() holds
FinalResponse ==
    /\ pc = "running" /\ stage_state = "running"
    /\ LET current_agent == sub_agents[stage]
       IN  /\ yielded' = yielded + 1
           /\ consumed' = consumed + 1
           /\ stdout' = stdout \o << "text", "Respuesta final" >>
           /\ output_log' = IF demo_mode THEN Append(output_log, "Respuesta final") ELSE output_log
           /\ a2a_log' = IF demo_mode /\ last_agent # NoAgent /\ last_agent # current_agent
                         THEN log_a2a(a2a_log, last_agent, current_agent, "Pasando contexto")
                         ELSE a2a_log
           /\ last_agent' = IF demo_mode THEN current_agent ELSE last_agent
           /\ stage_state' = "finished"
           /\ finished' = Append(finished, current_agent)
    /\ UNCHANGED << env, fs, clock, call, ret, ncalls, pc, task, demo_mode, stage, started,
                    errors_seen >>

\* the end of run_orchestrator, after the loop
Complete ==
    /\ pc = "running"
    /\ stage = Len(sub_agents) /\ stage_state = "finished"
    /\ pc' = "done"
    /\ stdout' = Append(stdout, "ORCHESTRATOR COMPLETADO")
    /\ output_log' = IF demo_mode THEN Append(output_log, "ORCHESTRATOR COMPLETADO") ELSE output_log
    /\ a2a_log' = IF demo_mode
                  THEN log_a2a(a2a_log, "web_portal", "orchestrator", "IDP generado exitosamente. Portal listo.")
                  ELSE a2a_log
    /\ UNCHANGED << env, fs, clock, call, ret, ncalls, task, demo_mode, stage, stage_state,
                    started, finished, yielded, consumed, errors_seen, last_agent >>

\* the CI/CD stage, agents_adk/cicd/agent.py: it leaves the decisions the
\* web portal reads, in a file of its own
CicdSaveDecisions ==
    /\ may_call("cicd")
    /\ tool_call("cicd", "save_cicd_scripts", << >>,
                 [ fs |-> write(fs, OUTPUT_DIR(env), "cicd-decisions.json",
                                json_dump([ ci_cd |-> [ created_at |-> clock ] ])),
                   ret |-> [ status |-> "success" ] ])

\* a fresh process and an empty output directory
Init ==
    /\ env \in EnvValues
    /\ fs = EmptyFs
    /\ clock = 0 /\ call = NoCall /\ ret = NoRet /\ ncalls = 0
    /\ pc = "idle"
    /\ task \in { TaskDefault, TaskThree }
    /\ demo_mode \in BOOLEAN
    /\ stage = 0 /\ stage_state = "idle" /\ started = << >> /\ finished = << >>
    /\ yielded = 0 /\ consumed = 0 /\ errors_seen = 0
    /\ stdout = << >> /\ output_log = << >> /\ a2a_log = << >> /\ last_agent = NoAgent

Next ==
    \/ RunOrchestrator \/ StartSubAgent \/ PipelineTools \/ CicdSaveDecisions
    \/ ErrorEvent \/ FinalResponse \/ Complete

Spec == Init /\ [][Next]_vars

-----------------------------------------------------------------------------
(* save_platform_config(stack_summary) on summaries that leave required    *)
(* fields out or empty                                                     *)

\* the items of a stack_summary, in the order of the docstring: label and value
SummaryItems == <<
    << <<"R","u","n","t","i","m","e">>, <<"G","o"," ","1",".","2","1">> >>, << <<"F","r","a","m","e","w","o","r","k">>, <<"G","i","n">> >>,
    << <<"D","a","t","a","b","a","s","e">>, <<"P","o","s","t","g","r","e","S","Q","L">> >>, << <<"C","a","c","h","e">>, <<"R","e","d","i","s">> >>,
    << <<"M","o","n","i","t","o","r","i","n","g">>, <<"P","r","o","m","e","t","h","e","u","s","+","G","r","a","f","a","n","a">> >>, << <<"S","e","c","u","r","i","t","y">>, <<"T","r","i","v","y">> >>,
    << <<"D","e","p","l","o","y","m","e","n","t">>, <<"D","o","c","k","e","r"," ","C","o","m","p","o","s","e">> >>, << <<"E","n","v","i","r","o","n","m","e","n","t">>, <<"L","o","c","a","l",":"," ","d","e","v">> >> >>

\* item k written in a style, its value left empty when empty holds
summary_item(k, style, empty) ==
    IF style = "docstring"
    THEN SummaryItems[k][1] \o <<":"," ">> \o (IF empty THEN << >> ELSE SummaryItems[k][2])
    ELSE <<" "," ">> \o lower(SummaryItems[k][1]) \o <<" ",":">> \o (IF empty THEN <<" "," ">> ELSE SummaryItems[k][2])

\* the items from k on, each preceded by the separator, without the absent ones
RECURSIVE summary_from(_, _, _)
summary_from(k, style, bad) ==
    IF k > Len(SummaryItems) THEN << >>
    ELSE (IF k \in DOMAIN bad /\ bad[k] = "absent" THEN << >>
          ELSE (IF style = "docstring" THEN <<" ","|"," ">> ELSE <<"|">>)
               \o summary_item(k, style, k \in DOMAIN bad))
         \o summary_from(k + 1, style, bad)

\* a stack_summary: bad maps the indices of some required fields to "absent" or "empty"
stack_summary_of(style, bad) == <<"C","I","/","C","D",":"," ","J","e","n","k","i","n","s">> \o summary_from(1, style, bad)

BadFields ==
    UNION { [ B -> { "absent", "empty" } ] : B \in { S \in SUBSET (1..Len(SummaryItems)) : Cardinality(S) <= MaxBad } }

PaSaveIncomplete ==
    /\ pc = "interactive" /\ ncalls = 0
    /\ \E style \in { "docstring", "compact" }, bad \in BadFields :
         LET s == stack_summary_of(style, bad)
         IN  tool_call("platform_architect", "save_platform_config",
                       [ stack_summary |-> s, bad |-> bad ],
                       pa_save_platform_config(fs, env, s, clock))

\* the output directory is empty, or holds a task, or holds the configuration
\* an earlier save_platform_config(SummaryPython) wrote
InitValidate ==
    /\ env \in EnvValues
    /\ \E t \in { << >>, TaskDocker }, saved \in BOOLEAN :
         LET fs0 == IF t = << >> THEN EmptyFs
                    ELSE write(EmptyFs, getenv(env, "./test-outputs"), "user-task.txt", Text(t))
         IN  /\ fs = IF saved THEN pa_save_platform_config(fs0, env, SummaryPython, 0).fs ELSE fs0
             /\ clock = IF saved THEN 1 ELSE 0
    /\ call = NoCall /\ ret = NoRet /\ ncalls = 0
    /\ pc = "interactive" /\ task = << >> /\ demo_mode = FALSE
    /\ stage = 0 /\ stage_state = "idle" /\ started = << >> /\ finished = << >>
    /\ yielded = 0 /\ consumed = 0 /\ errors_seen = 0
    /\ stdout = << >> /\ output_log = << >> /\ a2a_log = << >> /\ last_agent = NoAgent

SpecValidate == InitValidate /\ [][PaSaveIncomplete]_vars

-----------------------------------------------------------------------------
(* Properties *)

\* C1: the run starts the seven stages in the order platform_architect,
\* infrastructure, security, cicd, observability, devex, web_portal, each once,
\* none before the one before it has finished, and it ends after web_portal.
C1_FixedStageOrder ==
    LET order == << "platform_architect", "infrastructure", "security", "cicd",
                    "observability", "devex", "web_portal" >>
    IN  /\ Len(started) <= Len(order)
        /\ started = SubSeq(order, 1, Len(started))
        /\ finished = SubSeq(order, 1, Len(finished))
        /\ Len(started) - Len(finished) \in {0, 1}
        /\ (stage_state = "running") = (Len(started) = Len(finished) + 1)
        /\ pc = "done" => finished = order

C1_RunCompleted ==
    pc = "done" /\ Len(finished) = 7 /\ finished[7] = "web_portal" /\ ncalls > 0

\* C2: for every setting of ADK_OUTPUT_DIR the files of all stages lie in one
\* directory: the tools of the later stages find user-task.txt, which the
\* orchestrator wrote, in the directory they read and write.
C2_OneStateDirectory ==
    /\ \A d1, d2 \in Dirs :
         (\E f \in Files : exists(fs, d1, f)) /\ (\E f \in Files : exists(fs, d2, f)) => d1 = d2
    /\ pc \in { "running", "done" } => exists(fs, OUTPUT_DIR(env), "user-task.txt")

\* C3: while no directory holds platform-config.yaml, each artifact tool of a
\* later stage returns status error and writes nothing.
C3_LaterStagesFailWithoutConfig ==
    [][ ( /\ ncalls' = ncalls + 1
          /\ call'.tool \in { "save_docker_compose", "run_trivy_scan", "setup_prometheus_grafana",
                              "save_cli_tool", "generate_portal" }
          /\ \A d \in Dirs : ~exists(fs, d, "platform-config.yaml") )
        => ( ret'.status = "error" /\ fs' = fs ) ]_vars

\* C4: in the orchestrator's run save_platform_config is the one that takes a
\* stack_summary, and the platform-config.yaml it writes records the
\* capabilities detected in the task of user-task.txt.
C4_PipelineSaveReadsUserTask ==
    pc \in { "running", "done" } =>
        /\ call.tool = "save_platform_config" => call.agent = "platform_architect"
        /\ \A d \in Dirs :
             exists(fs, d, "platform-config.yaml") /\ exists(fs, d, "user-task.txt") =>
                LET config == load(fs[d]["platform-config.yaml"])
                    capabilities == detect_capabilities(strip(fs[d]["user-task.txt"].text))
                IN  capabilities # << >> =>
                        /\ "features" \in DOMAIN config
                        /\ config.features.self_service.capabilities = capabilities

\* C5: save_platform_config(stack_summary) returns status error exactly when a
\* required field is absent from the summary or has an empty value, lists
\* exactly those fields, and then leaves platform-config.yaml and
\* platform-decisions.json as they were.
C5_ValidatesRequiredFields ==
    [][ ( ncalls' = ncalls + 1 /\ call'.tool = "save_platform_config" ) =>
        LET bad == call'.arg.bad
            names == << <<"r","u","n","t","i","m","e">>, <<"f","r","a","m","e","w","o","r","k">>, <<"d","a","t","a","b","a","s","e">>, <<"c","a","c","h","e">>,
                        <<"m","o","n","i","t","o","r","i","n","g">>, <<"s","e","c","u","r","i","t","y">>, <<"d","e","p","l","o","y","m","e","n","t">>, <<"e","n","v","i","r","o","n","m","e","n","t">> >>
            expected == SelectSeq(names, LAMBDA n : \E k \in DOMAIN bad : names[k] = n)
        IN  IF expected = << >>
            THEN ret'.status = "success"
            ELSE /\ ret'.status = "error"
                 /\ ret'.message.fields = expected
                 /\ \A d \in Dirs : \A f \in { "platform-config.yaml", "platform-decisions.json" } :
                      fs'[d][f] = fs[d][f] ]_vars

C5_RejectedOverSavedConfig ==
    /\ call.tool = "save_platform_config"
    /\ ret.status = "error"
    /\ Len(ret.message.fields) = 2
    /\ \E k \in DOMAIN call.arg.bad : call.arg.bad[k] = "empty"
    /\ exists(fs, getenv(env, "./test-outputs"), "platform-config.yaml")

\* C6: in every directory platform-config.yaml and platform-decisions.json are
\* both absent or both hold the same configuration, and after a successful
\* save_platform_config of either variant that configuration is the one of the call.
C6_YamlAndJsonAgree ==
    /\ \A d \in Dirs :
         /\ exists(fs, d, "platform-config.yaml") = exists(fs, d, "platform-decisions.json")
         /\ exists(fs, d, "platform-config.yaml") =>
              /\ fs[d]["platform-config.yaml"].kind = "yaml"
              /\ fs[d]["platform-decisions.json"].kind = "json"
              /\ load(fs[d]["platform-config.yaml"]) = load(fs[d]["platform-decisions.json"])
    /\ ( call.tool = "save_platform_config" /\ ret.status = "success" ) =>
         LET d == getenv(env, "./test-outputs")
         IN  /\ exists(fs, d, "platform-config.yaml")
             /\ load(fs[d]["platform-config.yaml"]).stack.runtime = ret.runtime
             /\ load(fs[d]["platform-config.yaml"]).stack.database = ret.database
             /\ load(fs[d]["platform-decisions.json"]).platform.created_at = clock - 1

C6_SavedTwiceWithFeatures ==
    /\ ncalls = 2
    /\ call.tool = "save_platform_config" /\ ret.status = "success"
    /\ "features" \in DOMAIN load(fs[getenv(env, "./test-outputs")]["platform-decisions.json"])
    /\ load(fs[getenv(env, "./test-outputs")]["platform-config.yaml"]).platform.created_at = 1

\* C7: a reading tool called while the file it reads is absent returns a
\* dictionary with an error key or with status not_found or error, and changes
\* no file.
C7_ReadersReportMissingConfig ==
    [][ ( /\ ncalls' = ncalls + 1
          /\ \/ /\ call'.tool \in { "get_platform_config", "read_idp_configuration" }
                /\ ~exists(fs, OUTPUT_DIR(env), "platform-config.yaml")
             \/ /\ call'.tool \in { "get_current_config", "explain_decision" }
                /\ ~exists(fs, getenv(env, "./test-outputs"), "platform-config.yaml")
             \/ /\ call'.tool = "get_infrastructure_decisions"
                /\ ~exists(fs, OUTPUT_DIR(env), "infrastructure-decisions.json") )
        => ( /\ \/ "error" \in DOMAIN ret'
                \/ "status" \in DOMAIN ret' /\ ret'.status \in { "not_found", "error" }
             /\ fs' = fs ) ]_vars

C7_ReaderFoundNothing ==
    /\ call.tool = "get_current_config"
    /\ ret.status = "not_found"
    /\ ncalls = 2
    /\ \E d \in Dirs : exists(fs, d, "docker-compose/app-stack.yml")

\* C8: each of the eight unimplemented tools returns status not_implemented
\* for every argument and every content of the directories, and changes no file.
C8_NotImplementedChangesNothing ==
    [][ ( /\ ncalls' = ncalls + 1
          /\ call'.tool \in { "save_kubernetes_manifests", "save_terraform_config", "save_helm_charts",
                              "save_cloudformation_template", "setup_datadog", "setup_cloudwatch",
                              "setup_new_relic", "run_grype_scan" } )
        => ( ret'.status = "not_implemented" /\ fs' = fs ) ]_vars

C8_NotImplementedOverSavedConfig ==
    /\ call.tool \in { "run_grype_scan", "save_terraform_config", "setup_datadog" }
    /\ ret.status = "not_implemented"
    /\ \E d \in Dirs : exists(fs, d, "platform-config.yaml")

\* C9: an error event is printed (and in demo mode logged) and nothing else;
\* the run ends only after all seven stages with every event consumed; it
\* then prints ORCHESTRATOR COMPLETADO, and in demo mode logs it and appends
\* the final A2A entry, while outside demo mode it writes neither log.
C9_ErrorsOnlyLogged ==
    /\ Len(SelectSeq(stdout, LAMBDA l : l = "Error")) = errors_seen
    /\ Len(SelectSeq(output_log, LAMBDA l : l = "Error")) = IF demo_mode THEN errors_seen ELSE 0
    /\ consumed = yielded
    /\ pc = "done" =>
         /\ Len(finished) = 7
         /\ stdout[Len(stdout)] = "ORCHESTRATOR COMPLETADO"
         /\ IF demo_mode
            THEN /\ output_log[Len(output_log)] = "ORCHESTRATOR COMPLETADO"
                 /\ a2a_log[Len(a2a_log)] =
                        << "web_portal", "orchestrator", "IDP generado exitosamente. Portal listo." >>
            ELSE output_log = << >> /\ a2a_log = << >>

C9_CompletedAfterErrors ==
    pc = "done" /\ errors_seen = 2 /\ demo_mode /\ Len(a2a_log) > 1

\* C9 as stated: whenever the run has ended, ORCHESTRATOR COMPLETADO and the
\* final A2A entry have been logged.
C9_AlwaysLogsFinalEntry ==
    pc = "done" =>
        /\ stdout[Len(stdout)] = "ORCHESTRATOR COMPLETADO"
        /\ a2a_log # << >>
        /\ a2a_log[Len(a2a_log)] =
               << "web_portal", "orchestrator", "IDP generado exitosamente. Portal listo." >>

\* C10: for the three tasks of the instruction save_platform_config reports
\* add_docker_service; add_docker_service, generate_terraform and
\* create_pipeline; provision_database and provision_s3.
C10_DocumentedExamples ==
    ( call.agent = "platform_architect" /\ call.tool = "save_platform_config"
      /\ ret.status = "success"
      /\ exists(fs, getenv(env, "./test-outputs"), "user-task.txt") ) =>
        LET user_task == fs[getenv(env, "./test-outputs")]["user-task.txt"].text
            detected == { ret.capabilities[i] : i \in DOMAIN ret.capabilities }
        IN  /\ ret.self_service_capabilities_detected = Cardinality(detected)
            /\ user_task = TaskDocker => detected = { "add_docker_service" }
            /\ user_task = TaskThree =>
                 detected = { "add_docker_service", "generate_terraform", "create_pipeline" }
            /\ user_task = TaskPortal => detected = { "provision_database", "provision_s3" }

-----------------------------------------------------------------------------
(* The infrastructure and security tools over the configurations the       *)
(* Platform Architect can have saved                                       *)

\* the scanner and the CI/CD provider of a saved configuration: names of the
\* mappings, names outside them, and names with an image, as the Platform
\* Architect writes them
ProviderChoices ==
    { << <<"T","r","i","v","y">>, <<"J","e","n","k","i","n","s">> >>,
      << <<"S","n","y","k">>, <<"G","i","t","H","u","b"," ","A","c","t","i","o","n","s">> >>,
      << <<"G","r","y","p","e">>, <<"G","i","t","L","a","b"," ","C","I">> >>,
      << <<"C","l","a","i","r">>, <<"C","i","r","c","l","e","C","I">> >>,
      << <<"A","W","S"," ","I","n","s","p","e","c","t","o","r">>, <<"b","a","s","h"," ","s","c","r","i","p","t","s">> >>,
      << <<"A","n","c","h","o","r","e">>, <<"J","e","n","k","i","n","s"," ","(","I","m","a","g","e",":"," ","j","e","n","k","i","n","s","/","j","e","n","k","i","n","s",":","l","t","s","-","j","d","k","1","7","-","b","l","u","e","o","c","e","a","n",")">> >>,
      << <<"S","n","y","k"," ","(","I","m","a","g","e",":"," ","s","n","y","k","/","s","n","y","k",":","a","l","p","i","n","e",")">>, <<"T","e","k","t","o","n","(","I","m","a","g","e",":","t","e","k","t","o","n","/","c","l","i",":","v","1",")">> >>,
      << <<"C","h","e","c","k","o","v"," ","(","I","m","a","g","e",":"," ","b","r","i","d","g","e","c","r","e","w","/","c","h","e","c","k","o","v",":","3",")">>, <<"G","i","t","L","a","b"," ","C","I">> >>,
      << <<"A","W","S"," ","I","n","s","p","e","c","t","o","r"," ","(","I","m","a","g","e",":"," ","i","n","s","p","e","c","t","o","r","/","l","o","c","a","l",":","1",")">>, <<"J","e","n","k","i","n","s"," ","(","L","T","S",")">> >>,
      << <<"t","r","i","v","y">>, <<"J","e","n","k","i","n","s"," ">> >> }

\* the output directory after the Platform Architect stage: it saved a
\* configuration, or it saved none
InitInfra ==
    /\ env \in EnvValues
    /\ \E choice \in ProviderChoices \cup { << >> } :
         /\ fs = IF choice = << >> THEN EmptyFs
                 ELSE adk_save_platform_config(EmptyFs, env,
                          AdkArgs(<<"P","y","t","h","o","n"," ","3",".","1","1">>, <<"F","a","s","t","A","P","I">>, <<"P","o","s","t","g","r","e","S","Q","L">>, <<"R","e","d","i","s">>,
                                  choice[1], choice[2]), 0).fs
         /\ clock = IF choice = << >> THEN 0 ELSE 1
    /\ call = NoCall /\ ret = NoRet /\ ncalls = 0
    /\ pc = "interactive" /\ task = << >> /\ demo_mode = FALSE
    /\ stage = 0 /\ stage_state = "idle" /\ started = << >> /\ finished = << >>
    /\ yielded = 0 /\ consumed = 0 /\ errors_seen = 0
    /\ stdout = << >> /\ output_log = << >> /\ a2a_log = << >> /\ last_agent = NoAgent

NextInfra == SaveDockerCompose \/ GetInfrastructureDecisions \/ RunTrivyScan \/ RunSnykScan

SpecInfra == InitInfra /\ [][NextInfra]_vars

\* C11: run_trivy_scan starts the scanner container, or returns status
\* success, only when infrastructure-decisions.json records Trivy as the
\* scanner chosen, with a service that is available.
C11_TrivyOnlyWithTrivyService ==
    ( call.tool = "run_trivy_scan" /\ ( call.arg.ran \/ ret.status = "success" ) ) =>
        /\ exists(fs, OUTPUT_DIR(env), "infrastructure-decisions.json")
        /\ LET decisions == load(fs[OUTPUT_DIR(env)]["infrastructure-decisions.json"])
           IN  /\ decisions.security_scanner.scanner_chosen = <<"T","r","i","v","y">>
               /\ decisions.security_scanner.available
               /\ decisions.security_scanner.scanner_service = <<"s","e","c","u","r","i","t","y","-","s","c","a","n","n","e","r">>

\* C12: every file has one writer: a step changes a file only if it is the
\* step of the stage that owns the file, or, for user-task.txt, of the
\* orchestrator.
C12_OneWriterPerFile ==
    [][ LET writer == IF ncalls' = ncalls THEN "orchestrator"
                      ELSE IF call'.agent = "platform_architect_adk" THEN "platform_architect"
                      ELSE call'.agent
            owner(f) ==
                CASE f = "user-task.txt" -> "orchestrator"
                  [] f \in { "platform-config.yaml", "platform-decisions.json",
                             "platform-architect-debug.log" } -> "platform_architect"
                  [] f \in { "docker-compose/app-stack.yml", "setup-jenkins.sh",
                             "infrastructure-decisions.json" } -> "infrastructure"
                  [] f = "security-report.json" -> "security"
                  [] f = "cicd-decisions.json" -> "cicd"
                  [] f \in { "grafana-dashboards/app-metrics.json", "grafana-dashboards/system-metrics.json",
                             "docker-compose/prometheus.yml", "observability-decisions.json" } -> "observability"
                  [] f \in { "cli-tool/idp", "cli-tool/README.md", "devex-decisions.json" } -> "devex"
                  [] f \in { "portal/main.py", "portal/templates/index.html", "portal/requirements.txt",
                             "portal/Dockerfile", "portal/run-portal.sh", "web-portal-decisions.json" } -> "web_portal"
        IN  \A d \in Dirs : \A f \in Files : fs'[d][f] # fs[d][f] => owner(f) = writer ]_vars

C12_ThreeWritersWrote ==
    /\ call.agent = "web_portal"
    /\ \E d \in Dirs : exists(fs, d, "user-task.txt")
    /\ \E d \in Dirs : exists(fs, d, "platform-config.yaml") /\ exists(fs, d, "portal/main.py")

\* C13: save_docker_compose writes the default template exactly when
\* yaml_content is 'generate_default' or shorter than 50 characters; a
\* yaml_content of 50 characters or more stays the agent's own document (its
\* services kept as they were, or its text kept as it was when it does not load).
C13_DefaultTemplateOnlyForShortContent ==
    call.tool = "save_docker_compose" =>
        LET yaml_content == call.arg
            compose == fs[OUTPUT_DIR(env)]["docker-compose/app-stack.yml"]
            short == yaml_content.text = "generate_default" \/ Len(yaml_content.text) < 50
            default_template == { "app", "database", "cache", "prometheus", "grafana" } \subseteq DOMAIN compose.services
            own_document ==
                IF yaml_content.doc.valid
                THEN \A n \in DOMAIN yaml_content.doc.services :
                        n \in DOMAIN compose.services /\ compose.services[n] = yaml_content.doc.services[n]
                ELSE compose.text = yaml_content.text
        IN  /\ exists(fs, OUTPUT_DIR(env), "docker-compose/app-stack.yml")
            /\ default_template <=> short
            /\ ~short => own_document

C13_FiftyCharactersKept ==
    /\ call.tool = "save_docker_compose"
    /\ Len(call.arg.text) = 50
    /\ exists(fs, OUTPUT_DIR(env), "docker-compose/app-stack.yml")
    /\ LET compose == fs[OUTPUT_DIR(env)]["docker-compose/app-stack.yml"]
       IN  "web" \in DOMAIN compose.services /\ "app" \notin DOMAIN compose.services

\* C14: the scanner and the CI/CD runner get their image from the provider
\* string of the configuration: 'P (Image: I)' gives provider P and image I,
\* whatever the mapping holds for P; a plain name gives the image of the
\* mapping; a name the mapping lacks, AWS Inspector, and a missing
\* configuration give no image.
C14_ImageSelection ==
    call.tool = "save_docker_compose" =>
        LET dir == OUTPUT_DIR(env)
            decisions == load(fs[dir]["infrastructure-decisions.json"])
            scanner == decisions.security_scanner
            runner == decisions.ci_cd_runner
            components == load(fs[dir]["platform-config.yaml"]).components
            scanner_expected(written) ==
                CASE written = <<"T","r","i","v","y">> -> << <<"T","r","i","v","y">>, <<"a","q","u","a","s","e","c","/","t","r","i","v","y",":","l","a","t","e","s","t">> >>
                  [] written = <<"S","n","y","k">> -> << <<"S","n","y","k">>, <<"s","n","y","k","/","s","n","y","k",":","l","a","t","e","s","t">> >>
                  [] written = <<"G","r","y","p","e">> -> << <<"G","r","y","p","e">>, <<"a","n","c","h","o","r","e","/","g","r","y","p","e",":","l","a","t","e","s","t">> >>
                  [] written = <<"C","l","a","i","r">> -> << <<"C","l","a","i","r">>, <<"q","u","a","y",".","i","o","/","c","o","r","e","o","s","/","c","l","a","i","r",":","l","a","t","e","s","t">> >>
                  [] written = <<"A","W","S"," ","I","n","s","p","e","c","t","o","r">> -> << <<"A","W","S"," ","I","n","s","p","e","c","t","o","r">>, None >>
                  [] written = <<"A","n","c","h","o","r","e">> -> << <<"A","n","c","h","o","r","e">>, None >>
                  [] written = <<"t","r","i","v","y">> -> << <<"t","r","i","v","y">>, None >>
                  [] written = <<"S","n","y","k"," ","(","I","m","a","g","e",":"," ","s","n","y","k","/","s","n","y","k",":","a","l","p","i","n","e",")">> -> << <<"S","n","y","k">>, <<"s","n","y","k","/","s","n","y","k",":","a","l","p","i","n","e">> >>
                  [] written = <<"C","h","e","c","k","o","v"," ","(","I","m","a","g","e",":"," ","b","r","i","d","g","e","c","r","e","w","/","c","h","e","c","k","o","v",":","3",")">> -> << <<"C","h","e","c","k","o","v">>, <<"b","r","i","d","g","e","c","r","e","w","/","c","h","e","c","k","o","v",":","3">> >>
                  [] written = <<"A","W","S"," ","I","n","s","p","e","c","t","o","r"," ","(","I","m","a","g","e",":"," ","i","n","s","p","e","c","t","o","r","/","l","o","c","a","l",":","1",")">> -> << <<"A","W","S"," ","I","n","s","p","e","c","t","o","r">>, <<"i","n","s","p","e","c","t","o","r","/","l","o","c","a","l",":","1">> >>
            runner_expected(written) ==
                CASE written = <<"J","e","n","k","i","n","s">> -> << <<"J","e","n","k","i","n","s">>, <<"j","e","n","k","i","n","s","/","j","e","n","k","i","n","s",":","l","t","s">> >>
                  [] written = <<"G","i","t","H","u","b"," ","A","c","t","i","o","n","s">> -> << <<"G","i","t","H","u","b"," ","A","c","t","i","o","n","s">>, <<"n","e","k","t","o","s","/","a","c","t","-","e","n","v","i","r","o","n","m","e","n","t","s","-","u","b","u","n","t","u",":","1","8",".","0","4">> >>
                  [] written = <<"G","i","t","L","a","b"," ","C","I">> -> << <<"G","i","t","L","a","b"," ","C","I">>, <<"g","i","t","l","a","b","/","g","i","t","l","a","b","-","r","u","n","n","e","r",":","l","a","t","e","s","t">> >>
                  [] written = <<"C","i","r","c","l","e","C","I">> -> << <<"C","i","r","c","l","e","C","I">>, <<"c","i","r","c","l","e","c","i","/","c","i","r","c","l","e","c","i","-","c","l","i",":","l","a","t","e","s","t">> >>
                  [] written = <<"b","a","s","h"," ","s","c","r","i","p","t","s">> -> << <<"b","a","s","h"," ","s","c","r","i","p","t","s">>, None >>
                  [] written = <<"J","e","n","k","i","n","s"," ","(","L","T","S",")">> -> << <<"J","e","n","k","i","n","s"," ","(","L","T","S",")">>, None >>
                  [] written = <<"J","e","n","k","i","n","s"," ">> -> << <<"J","e","n","k","i","n","s"," ">>, None >>
                  [] written = <<"J","e","n","k","i","n","s"," ","(","I","m","a","g","e",":"," ","j","e","n","k","i","n","s","/","j","e","n","k","i","n","s",":","l","t","s","-","j","d","k","1","7","-","b","l","u","e","o","c","e","a","n",")">> -> << <<"J","e","n","k","i","n","s">>, <<"j","e","n","k","i","n","s","/","j","e","n","k","i","n","s",":","l","t","s","-","j","d","k","1","7","-","b","l","u","e","o","c","e","a","n">> >>
                  [] written = <<"T","e","k","t","o","n","(","I","m","a","g","e",":","t","e","k","t","o","n","/","c","l","i",":","v","1",")">> -> << <<"T","e","k","t","o","n">>, <<"t","e","k","t","o","n","/","c","l","i",":","v","1">> >>
        IN  /\ exists(fs, dir, "infrastructure-decisions.json")
            /\ IF exists(fs, dir, "platform-config.yaml")
               THEN /\ << scanner.scanner_chosen, scanner.scanner_image >> = scanner_expected(components.security.scanner)
                    /\ << runner.provider, runner.runner_image >> = runner_expected(components.ci_cd.provider)
               ELSE /\ scanner.scanner_image = None
                    /\ runner.runner_image = None

C14_ImageOfTheStringChosen ==
    /\ call.tool = "save_docker_compose"
    /\ exists(fs, OUTPUT_DIR(env), "infrastructure-decisions.json")
    /\ LET decisions == load(fs[OUTPUT_DIR(env)]["infrastructure-decisions.json"])
       IN  /\ decisions.security_scanner.scanner_chosen = <<"S","n","y","k">>
           /\ decisions.security_scanner.scanner_image = <<"s","n","y","k","/","s","n","y","k",":","a","l","p","i","n","e">>
           /\ decisions.ci_cd_runner.runner_image = <<"t","e","k","t","o","n","/","c","l","i",":","v","1">>

\* C15: in the default template the security-scanner service is there if and
\* only if a scanner image was selected and the ci-runner service if and only
\* if a CI/CD image was selected; infrastructure-decisions.json records
\* available as true exactly when the service was added, and scanner_service
\* and runner_service as null when it was not.
C15_ServiceAddedIffImageSelected ==
    ( call.tool = "save_docker_compose"
      /\ ( call.arg.text = "generate_default" \/ Len(call.arg.text) < 50 ) ) =>
        LET dir == OUTPUT_DIR(env)
            services == DOMAIN fs[dir]["docker-compose/app-stack.yml"].services
            decisions == load(fs[dir]["infrastructure-decisions.json"])
            scanner == decisions.security_scanner
            runner == decisions.ci_cd_runner
        IN  /\ "security-scanner" \in services <=> scanner.scanner_image # None
            /\ scanner.available <=> "security-scanner" \in services
            /\ scanner.scanner_service = IF "security-scanner" \in services THEN <<"s","e","c","u","r","i","t","y","-","s","c","a","n","n","e","r">> ELSE None
            /\ "ci-runner" \in services <=> runner.runner_image # None
            /\ runner.available <=> "ci-runner" \in services
            /\ runner.runner_service = IF "ci-runner" \in services THEN <<"c","i","-","r","u","n","n","e","r">> ELSE None

C15_RunnerAddedScannerNot ==
    /\ call.tool = "save_docker_compose"
    /\ call.arg.text = "generate_default"
    /\ exists(fs, OUTPUT_DIR(env), "docker-compose/app-stack.yml")
    /\ "ci-runner" \in DOMAIN fs[OUTPUT_DIR(env)]["docker-compose/app-stack.yml"].services
    /\ "security-scanner" \notin DOMAIN fs[OUTPUT_DIR(env)]["docker-compose/app-stack.yml"].services
    /\ LET decisions == load(fs[OUTPUT_DIR(env)]["infrastructure-decisions.json"])
       IN  /\ decisions.security_scanner.scanner_chosen = <<"A","n","c","h","o","r","e">>
           /\ decisions.security_scanner.scanner_service = None
           /\ decisions.ci_cd_runner.available

====
